---- MODULE Spec2Model ----
(***************************************************************************)
(* Model of the OpenMax API server's agent execution path                  *)
(* (server/index.js): the brain/agent endpoint, the instant-skill          *)
(* endpoint, the skill registry, the execution router, the command         *)
(* runners and the model-output parser.                                    *)
(*                                                                         *)
(* Texts are sequences of tokens (strings).  The empty JavaScript string   *)
(* is the empty sequence; the JavaScript value null, where a text field    *)
(* can hold it, is the one-token text JsNull.                              *)
(***************************************************************************)
EXTENDS Integers, Sequences, FiniteSets, TLC

VARIABLES
    OPENMAX_OPENCLAW_EXECUTION,      \* process.env value, lower-cased
    OPENMAX_ALLOW_CLIENT_SSH_CONFIG, \* BOOLEAN
    envHost,                         \* process.env.OPENMAX_VPS_HOST ("" = unset)
    envUser,                         \* process.env.OPENMAX_VPS_USER ("" = unset)
    envPassword,                     \* process.env.OPENMAX_VPS_PASSWORD ("" = unset)
    envAllowKeyAuth,                 \* process.env.OPENMAX_ALLOW_KEY_AUTH is set
    pc,                              \* position of the request handler
    endpoint,                        \* "none" | "agent" | "skill"
    body,                            \* req.body of the request in flight
    paramSkillId,                    \* req.params.skillId (skill endpoint)
    history,                         \* rows returned by getConversationMessages
    decisionRaw,                     \* raw text returned by the decision model call
    skillId,                         \* skill id being executed
    sshConfig,                       \* resolved target {host, user, password}
    execution,                       \* result record of the command runner
    calls,                           \* collaborator calls started by this request
    ranCommand,                      \* command string handed to the runner
    response,                        \* response sent for the request
    chatError,                       \* message of the error ollamaChat threw, if any
    child,                           \* how the runner's child process ended
    sent,                            \* responses sent for the request in flight
    connected,                       \* the caller's connection is still open
    clock,                           \* time since the request arrived, in handler steps
    execEndedAt,                     \* clock reading when the runner returned
    ptext,                           \* parser harness: text under test
    pphase,                          \* parser harness: "input" | "parsed" | "answered"
    pvalue,                          \* parser harness: safeJsonParse(ptext)
    presponse,                       \* parser harness: response built from ptext
    cpc,                             \* client: the await sendMessage is suspended at
    isSending,                       \* client: component state isSending
    currentSessionId,                \* client: hook state currentSessionId ("" = null)
    hookError,                       \* client: hook state error (<<>> = null)
    effectPending,                   \* client: the effect on [error] has yet to run
    inputValue,                      \* client: component state inputValue
    attachedFiles,                   \* client: number of attached files
    messages,                        \* client: component state messages
    statusMessage,                   \* client: component state statusMessage
    statusLevel,                     \* client: component state statusLevel
    sendText,                        \* client: sendMessage's local text
    sendFiles,                       \* client: sendMessage's local files (their number)
    sendSessionId,                   \* client: sendMessage's local sessionId
    agent,                           \* client: sendMessage's local agent
    requests,                        \* client: requests issued by the send in progress
    saveFailed,                      \* client: roles whose saveMessage returned null
    shown,                           \* client: status texts on screen since the send began
    shTarget,                        \* shell harness: target {host, user, password}
    shCommand,                       \* shell harness: command text, one character per token
    shPhase,                         \* shell harness: "off" | "input" | "spawned" | "parsed"
    shFile,                          \* shell harness: file handed to execFile
    shArgs,                          \* shell harness: argument vector handed to execFile
    shWords,                         \* shell harness: words the remote shell reads from the command line
    hStored,                         \* history harness: rows of the conversation, oldest first
    hPhase,                          \* history harness: "off" | "stored" | "fetched" | "quoted"
    hHistory,                        \* history harness: rows the agent handler read
    hMessages,                       \* history harness: messages sent to the decision model
    hQuoted,                         \* history harness: content quoted as the user request
    memUser,                         \* hook: useAuth().currentUser ("" = none)
    memSessionId,                    \* hook: state currentSessionId (<<>> = null)
    memSeen,                         \* hook: currentSessionId as the latest saveMessage callback closed over it
    mempc,                           \* hook: the await saveMessage is suspended at
    memCaptured,                     \* hook: currentSessionId of the callback that is running
    memCreated,                      \* hook: saveMessage's local sessionId (<<>> = not set)
    memCreateFailed,                 \* hook: startConversation returned null to the running saveMessage
    memPosts,                        \* hook: bodies posted to /api/messages
    memPostsAtCall,                  \* hook: number of posts when the running saveMessage was called
    memReturned,                     \* hook: what the last saveMessage returned
    memConversations,                \* hook: conversations created so far
    memRole,                         \* hook: role argument of the running saveMessage
    fIsSending,                      \* flights: component state isSending
    fSeenIsSending,                  \* flights: isSending as the rendered handlers closed over it
    fSessionId,                      \* flights: hook state currentSessionId ("" = null)
    fSeenSessionId,                  \* flights: currentSessionId as the rendered handlers closed over it
    fFlows,                          \* flights: the invocations made so far, each with the await it is suspended at
    fMessages,                       \* flights: roles of the messages appended to the list
    runningSkillId,                  \* client: component state runningSkillId ("" = null)
    instantSkill,                    \* client: runInstantSkill's argument skill
    skillResult                      \* client: runInstantSkill's local skillResult

cfgVars == <<OPENMAX_OPENCLAW_EXECUTION, OPENMAX_ALLOW_CLIENT_SSH_CONFIG,
             envHost, envUser, envPassword, envAllowKeyAuth>>
reqVars == <<pc, endpoint, body, paramSkillId, history, decisionRaw, skillId,
             sshConfig, execution, calls, ranCommand, response, chatError,
             child, sent, connected, clock, execEndedAt>>
parseVars == <<ptext, pphase, pvalue, presponse>>
clientVars == <<cpc, isSending, currentSessionId, hookError, effectPending, inputValue,
                attachedFiles, messages, statusMessage, statusLevel, sendText, sendFiles,
                sendSessionId, agent, requests, saveFailed, shown>>
shellVars == <<shTarget, shCommand, shPhase, shFile, shArgs, shWords>>
historyVars == <<hStored, hPhase, hHistory, hMessages, hQuoted>>
hookVars == <<memUser, memSessionId, memSeen, mempc, memCaptured, memCreated,
              memCreateFailed, memPosts, memPostsAtCall, memReturned,
              memConversations, memRole>>
flightVars == <<fIsSending, fSeenIsSending, fSessionId, fSeenSessionId, fFlows, fMessages>>
skillVars == <<runningSkillId, instantSkill, skillResult>>
vars == <<cfgVars, reqVars, parseVars, clientVars, shellVars, historyVars, hookVars, flightVars, skillVars>>

(***************************************************************************)
(* JavaScript values                                                       *)
(***************************************************************************)
UNDEFINED == "<undefined>"

\* String(v) as a template literal interpolates it
Str(v) == IF v = UNDEFINED THEN "undefined" ELSE v
NONE == "<none>"
JsNull == <<"<null>">>
Absent == <<"<absent>">>

\* a || b on strings: the empty string is falsy
OrElse(a, b) == IF a # "" THEN a ELSE b

\* a || b on texts
TextOrElse(a, b) == IF a # <<>> THEN a ELSE b

(***************************************************************************)
(* Skill registry                                                          *)
(***************************************************************************)
OPENCLAW_SKILLS ==
    [id \in {"health-check", "quick-fix", "vpn-status", "repo-sync", "service-restart"} |->
        CASE id = "health-check"    -> [title |-> "System Health Check", command |-> "cmd:health-check"]
          [] id = "quick-fix"       -> [title |-> "Auto Fix Orbit",      command |-> "cmd:quick-fix"]
          [] id = "vpn-status"      -> [title |-> "VPN Status",          command |-> "cmd:vpn-status"]
          [] id = "repo-sync"       -> [title |-> "Sync GitHub Repo",    command |-> "cmd:repo-sync"]
          [] id = "service-restart" -> [title |-> "Restart Services",    command |-> "cmd:service-restart"]]

\* Property names every object literal inherits from Object.prototype.
ObjectPrototypeKeys ==
    {"constructor", "toString", "__proto__", "hasOwnProperty", "valueOf"}

\* OPENCLAW_SKILLS[skillId]: plain property access on the object literal.
\* found = the value is truthy; an inherited member has neither title nor
\* command.
SkillLookup(id) ==
    IF id \in DOMAIN OPENCLAW_SKILLS
    THEN [found |-> TRUE, title |-> OPENCLAW_SKILLS[id].title,
          command |-> OPENCLAW_SKILLS[id].command]
    ELSE IF id \in ObjectPrototypeKeys
    THEN [found |-> TRUE, title |-> UNDEFINED, command |-> UNDEFINED]
    ELSE [found |-> FALSE, title |-> UNDEFINED, command |-> UNDEFINED]

(***************************************************************************)
(* Execution router                                                        *)
(***************************************************************************)
DefaultHost == "168.231.78.113"
DefaultUser == "root"

ResolveWith(allow, b, eHost, eUser, ePassword) ==
    [host     |-> OrElse(IF allow THEN b.host ELSE "", OrElse(eHost, DefaultHost)),
     user     |-> OrElse(IF allow THEN b.user ELSE "", OrElse(eUser, DefaultUser)),
     password |-> OrElse(IF allow THEN b.password ELSE "", OrElse(ePassword, ""))]

\* variant: caller-supplied values are honoured whatever the flag says
resolveSshConfig_IgnoresFlag(b) ==
    ResolveWith(TRUE, b, envHost, envUser, envPassword)

resolveSshConfig(b) ==
    ResolveWith(OPENMAX_ALLOW_CLIENT_SSH_CONFIG, b, envHost, envUser, envPassword)

RunLocallyIn(mode, host) ==
    IF mode = "local" THEN TRUE
    ELSE IF mode = "ssh" THEN FALSE
    ELSE host = "127.0.0.1" \/ host = "localhost"

\* variant: the auto heuristic knows the address but not the name
shouldRunOpenClawLocally_AddressOnly(host) ==
    IF OPENMAX_OPENCLAW_EXECUTION = "local" THEN TRUE
    ELSE IF OPENMAX_OPENCLAW_EXECUTION = "ssh" THEN FALSE
    ELSE host = "127.0.0.1"

\* variant: the ssh mode is not tested and falls through to the heuristic
shouldRunOpenClawLocally_NoSshMode(host) ==
    IF OPENMAX_OPENCLAW_EXECUTION = "local" THEN TRUE
    ELSE host = "127.0.0.1" \/ host = "localhost"

shouldRunOpenClawLocally(host) == RunLocallyIn(OPENMAX_OPENCLAW_EXECUTION, host)

\* variant: the password is required whatever the router chose
MissingPassword_AlsoLocal(cfg) ==
    /\ cfg.password = ""
    /\ ~envAllowKeyAuth

\* variant: the handlers have no password gate
MissingPassword_NoGate(cfg) == FALSE

\* !runOpenClawLocally && !sshConfig.password && !process.env.OPENMAX_ALLOW_KEY_AUTH
MissingPassword(cfg) ==
    /\ ~shouldRunOpenClawLocally(cfg.host)
    /\ cfg.password = ""
    /\ ~envAllowKeyAuth

(***************************************************************************)
(* Model-output parsing.  A text is a sequence of tokens: "{" and "}",     *)
(* the member list of a JSON object, a JSON scalar, or prose.              *)
(***************************************************************************)
LB == "{"
RB == "}"

M_RespondHi    == "\"action\":\"respond\",\"text\":\"Hi\""
M_RespondEmpty == "\"action\":\"respond\",\"text\":\"\""
M_RunHealth    == "\"action\":\"run_skill\",\"skillId\":\"health-check\",\"reason\":\"status\""
M_RunUnknown   == "\"action\":\"run_skill\",\"skillId\":\"reboot-all\""
M_RunInherited == "\"action\":\"run_skill\",\"skillId\":\"constructor\""
M_Dance        == "\"action\":\"dance\""
M_NoAction     == "\"text\":\"Hi\""
M_EmptyAction  == "\"action\":\"\",\"text\":\"Hi\""

JsValue(truthy, action, text, sid) ==
    [truthy |-> truthy, action |-> action, text |-> text, skillId |-> sid]

\* the object a member list denotes
MemberLists ==
    [m \in {M_RespondHi, M_RespondEmpty, M_RunHealth, M_RunUnknown,
            M_RunInherited, M_Dance, M_NoAction, M_EmptyAction} |->
        CASE m = M_RespondHi    -> JsValue(TRUE, "respond", <<"Hi">>, UNDEFINED)
          [] m = M_RespondEmpty -> JsValue(TRUE, "respond", <<>>, UNDEFINED)
          [] m = M_RunHealth    -> JsValue(TRUE, "run_skill", <<>>, "health-check")
          [] m = M_RunUnknown   -> JsValue(TRUE, "run_skill", <<>>, "reboot-all")
          [] m = M_RunInherited -> JsValue(TRUE, "run_skill", <<>>, "constructor")
          [] m = M_Dance        -> JsValue(TRUE, "dance", <<>>, UNDEFINED)
          [] m = M_NoAction     -> JsValue(TRUE, UNDEFINED, <<"Hi">>, UNDEFINED)
          [] m = M_EmptyAction  -> JsValue(TRUE, "", <<"Hi">>, UNDEFINED)]

JsonNull == JsValue(FALSE, UNDEFINED, <<>>, UNDEFINED)
JsonNumber == JsValue(TRUE, UNDEFINED, <<>>, UNDEFINED)
JsonEmptyObject == JsValue(TRUE, UNDEFINED, <<>>, UNDEFINED)

\* JSON.parse(text): ok = FALSE stands for the SyntaxError it throws
JSONparse(text) ==
    IF Len(text) = 3 /\ text[1] = LB /\ text[3] = RB /\ text[2] \in DOMAIN MemberLists
    THEN [ok |-> TRUE, value |-> MemberLists[text[2]]]
    ELSE IF text = <<LB, RB>> THEN [ok |-> TRUE, value |-> JsonEmptyObject]
    ELSE IF text = <<"null">> THEN [ok |-> TRUE, value |-> JsonNull]
    ELSE IF text = <<"42">> THEN [ok |-> TRUE, value |-> JsonNumber]
    ELSE [ok |-> FALSE, value |-> JsonNull]

\* text.indexOf(tok) and text.lastIndexOf(tok), 1-based, 0 when absent
IndexOf(text, tok) ==
    IF \E i \in DOMAIN text : text[i] = tok
    THEN CHOOSE i \in DOMAIN text :
            text[i] = tok /\ \A j \in DOMAIN text : text[j] = tok => i <= j
    ELSE 0

LastIndexOf(text, tok) ==
    IF \E i \in DOMAIN text : text[i] = tok
    THEN CHOOSE i \in DOMAIN text :
            text[i] = tok /\ \A j \in DOMAIN text : text[j] = tok => j <= i
    ELSE 0

\* variant: no recovery from text wrapped around the object
safeJsonParse_NoRecovery(text) ==
    IF JSONparse(text).ok THEN JSONparse(text).value ELSE JsonNull

safeJsonParse(text) ==
    IF JSONparse(text).ok THEN JSONparse(text).value
    ELSE LET start == IndexOf(text, LB)
             end == LastIndexOf(text, RB)
         IN IF start >= 1 /\ end > start
            THEN IF JSONparse(SubSeq(text, start, end)).ok
                 THEN JSONparse(SubSeq(text, start, end)).value
                 ELSE JsonNull
            ELSE JsonNull

(***************************************************************************)
(* Responses                                                               *)
(***************************************************************************)
NoTool ==
    [success |-> FALSE, host |-> NONE, user |-> NONE, exitCode |-> 0,
     stdout |-> Absent, stderr |-> Absent, error |-> Absent, executedAt |-> 0]

NoResponse ==
    [status |-> 0, action |-> NONE, assistant |-> Absent, error |-> Absent,
     detail |-> Absent, skillId |-> NONE, title |-> NONE, summary |-> Absent,
     tool |-> NoTool, raw |-> Absent]

\* res.status(status).json({ error, detail?, raw? })
ErrorResponse(status, error, detail, raw) ==
    [NoResponse EXCEPT !.status = status, !.error = error, !.detail = detail,
                       !.raw = raw]

\* res.json({ action: 'respond', assistant, raw })
RespondResponse(assistant, raw) ==
    [NoResponse EXCEPT !.status = 200, !.action = "respond",
                       !.assistant = assistant, !.raw = raw]

CouldNotDecide == <<"I could not decide an action, but I am ready.">>
OkText == <<"OK.">>

\* variant: an action that is neither respond nor run_skill is passed on
DecisionReply_EchoesAction(raw) ==
    LET decision == safeJsonParse(raw)
    IN IF ~decision.truthy \/ decision.action \in {UNDEFINED, ""}
       THEN RespondResponse(TextOrElse(raw, CouldNotDecide), raw)
       ELSE IF decision.action = "respond"
       THEN RespondResponse(TextOrElse(decision.text, OkText), raw)
       ELSE IF decision.action # "run_skill"
       THEN [RespondResponse(TextOrElse(raw, OkText), raw) EXCEPT !.action = decision.action]
       ELSE NoResponse

\* variant: no fixed sentence when the raw output is empty
DecisionReply_NoFallback(raw) ==
    LET decision == safeJsonParse(raw)
    IN IF ~decision.truthy \/ decision.action \in {UNDEFINED, ""}
       THEN RespondResponse(raw, raw)
       ELSE IF decision.action = "respond"
       THEN RespondResponse(TextOrElse(decision.text, OkText), raw)
       ELSE IF decision.action # "run_skill"
       THEN RespondResponse(TextOrElse(raw, OkText), raw)
       ELSE NoResponse

\* variant: every action other than respond goes on to the skill lookup
DecisionReply_NoActionCheck(raw) ==
    LET decision == safeJsonParse(raw)
    IN IF ~decision.truthy \/ decision.action \in {UNDEFINED, ""}
       THEN RespondResponse(TextOrElse(raw, CouldNotDecide), raw)
       ELSE IF decision.action = "respond"
       THEN RespondResponse(TextOrElse(decision.text, OkText), raw)
       ELSE NoResponse

\* The part of the agent handler that answers from the decision alone;
\* NoResponse when the decision is run_skill and the handler goes on.
DecisionReply(raw) ==
    LET decision == safeJsonParse(raw)
    IN IF ~decision.truthy \/ decision.action \in {UNDEFINED, ""}
       THEN RespondResponse(TextOrElse(raw, CouldNotDecide), raw)
       ELSE IF decision.action = "respond"
       THEN RespondResponse(TextOrElse(decision.text, OkText), raw)
       ELSE IF decision.action # "run_skill"
       THEN RespondResponse(TextOrElse(raw, OkText), raw)
       ELSE NoResponse

MissingPasswordText ==
    <<"Missing VPS password. Set OPENMAX_VPS_PASSWORD on the server (recommended), or configure key auth.">>

(***************************************************************************)
(* Command runners.  An outcome is what execFile reports: it resolves      *)
(* (kind "ok") or rejects with an error carrying code, stdout, stderr and  *)
(* message.                                                                *)
(***************************************************************************)
ExecOutcomes ==
    { [kind |-> "ok", codeIsInt |-> TRUE, code |-> 0,
       stdout |-> <<"out">>, stderr |-> <<>>, message |-> <<>>],
      [kind |-> "exit", codeIsInt |-> TRUE, code |-> 2,
       stdout |-> <<"out">>, stderr |-> <<"err">>, message |-> <<"Command failed">>],
      [kind |-> "spawn", codeIsInt |-> FALSE, code |-> 0,
       stdout |-> <<>>, stderr |-> <<>>, message |-> <<"spawn ENOENT">>],
      [kind |-> "timeout", codeIsInt |-> FALSE, code |-> 0,
       stdout |-> <<"out">>, stderr |-> <<>>, message |-> <<"Command failed">>],
      [kind |-> "maxBuffer", codeIsInt |-> FALSE, code |-> 0,
       stdout |-> <<"out">>, stderr |-> <<>>, message |-> <<"stdout maxBuffer length exceeded">>] }

NoExecution ==
    [success |-> FALSE, stdout |-> Absent, stderr |-> Absent, exitCode |-> 0,
     error |-> Absent]

\* variant: a failed run leaves `error` out of the result
ExecResult_ErrorUnset(o, unknownText) ==
    IF o.kind = "ok"
    THEN [success |-> TRUE, stdout |-> o.stdout, stderr |-> o.stderr,
          exitCode |-> 0, error |-> Absent]
    ELSE [success |-> FALSE, stdout |-> o.stdout,
          stderr |-> TextOrElse(o.stderr, TextOrElse(o.message, unknownText)),
          exitCode |-> IF o.codeIsInt THEN o.code ELSE 1,
          error |-> Absent]

\* variant: a run killed by the timeout gets the exit code 124
ExecResult_TimeoutCode(o, unknownText) ==
    IF o.kind = "ok"
    THEN [success |-> TRUE, stdout |-> o.stdout, stderr |-> o.stderr,
          exitCode |-> 0, error |-> Absent]
    ELSE [success |-> FALSE, stdout |-> o.stdout,
          stderr |-> TextOrElse(o.stderr, TextOrElse(o.message, unknownText)),
          exitCode |-> IF o.codeIsInt THEN o.code
                       ELSE IF o.kind = "timeout" THEN 124 ELSE 1,
          error |-> o.message]

\* variant: a failure without an integer code gets the exit code 0
ExecResult_DefaultZero(o, unknownText) ==
    IF o.kind = "ok"
    THEN [success |-> TRUE, stdout |-> o.stdout, stderr |-> o.stderr,
          exitCode |-> 0, error |-> Absent]
    ELSE [success |-> FALSE, stdout |-> o.stdout,
          stderr |-> TextOrElse(o.stderr, TextOrElse(o.message, unknownText)),
          exitCode |-> IF o.codeIsInt THEN o.code ELSE 0,
          error |-> o.message]

ExecResult(o, unknownText) ==
    IF o.kind = "ok"
    THEN [success |-> TRUE, stdout |-> o.stdout, stderr |-> o.stderr,
          exitCode |-> 0, error |-> Absent]
    ELSE [success |-> FALSE, stdout |-> o.stdout,
          stderr |-> TextOrElse(o.stderr, TextOrElse(o.message, unknownText)),
          exitCode |-> IF o.codeIsInt THEN o.code ELSE 1,
          error |-> o.message]

runLocally(o) == ExecResult(o, <<"Unknown local execution error">>)

runOverSsh(o) == ExecResult(o, <<"Unknown SSH error">>)

\* what the runner was started with
NoCommand == [runner |-> NONE, command |-> NONE, host |-> NONE, user |-> NONE, password |-> NONE]

LocalCommand(command) ==
    [runner |-> "local", command |-> command, host |-> NONE, user |-> NONE, password |-> NONE]

SshCommand(cfg, command) ==
    [runner |-> "ssh", command |-> Str(command), host |-> cfg.host, user |-> cfg.user,
     password |-> cfg.password]

(***************************************************************************)
(* The ssh invocation.  Here a string is the sequence of its characters,   *)
(* and an argument vector is a sequence of such strings, so that quoting   *)
(* and the remote shell's reading of the command line are computed         *)
(* character by character.                                                 *)
(***************************************************************************)
\* value.replace(/'/g, `'\''`): every single quote becomes '\''
RECURSIVE EscapeQuotes(_)
EscapeQuotes(value) ==
    IF value = <<>> THEN <<>>
    ELSE (IF Head(value) = "'" THEN <<"'", "\\", "'", "'">> ELSE <<Head(value)>>)
         \o EscapeQuotes(Tail(value))

quoteForShell_NoEscape(value) == <<"'">> \o value \o <<"'">>

quoteForShell(value) == <<"'">> \o EscapeQuotes(value) \o <<"'">>

\* `bash -lc ${quoteForShell(command)}`
remoteCommand(command) == <<"b", "a", "s", "h", " ", "-", "l", "c", " ">> \o quoteForShell(command)

buildSshArgs(host, user, remote) ==
    << <<"-o">>, <<"StrictHostKeyChecking=no">>,
       <<"-o">>, <<"UserKnownHostsFile=/dev/null">>,
       <<"-o">>, <<"ConnectTimeout=15">>,
       <<user, "@", host>>,
       remote >>

execCommand_AlwaysSsh(password) == "ssh"

\* password ? 'sshpass' : 'ssh'
execCommand(password) == IF password # "" THEN "sshpass" ELSE "ssh"

\* password ? ['-p', password, 'ssh', ...baseSshArgs] : baseSshArgs
execArgs(password, baseSshArgs) ==
    IF password # "" THEN << <<"-p">>, <<password>>, <<"ssh">> >> \o baseSshArgs
    ELSE baseSshArgs

(***************************************************************************)
(* The remote side.  ssh hands the words after the destination, joined by  *)
(* spaces, to the remote login shell, which splits the line into words:    *)
(* inside single quotes every character is literal up to the next single   *)
(* quote, outside them a backslash makes the next character literal (and   *)
(* removes a following newline), and blanks and newlines end a word.       *)
(***************************************************************************)
RECURSIVE ShellWords(_, _, _, _, _)
ShellWords(line, i, mode, cur, words) ==
    IF i > Len(line)
    THEN IF mode = "single" THEN << <<"<unterminated quote>">> >>
         ELSE IF mode = "word" THEN Append(words, cur) ELSE words
    ELSE LET c == line[i] IN
         IF mode = "single"
         THEN IF c = "'" THEN ShellWords(line, i + 1, "word", cur, words)
              ELSE ShellWords(line, i + 1, "single", Append(cur, c), words)
         ELSE IF c \in {" ", "\n"}
              THEN IF mode = "word" THEN ShellWords(line, i + 1, "none", <<>>, Append(words, cur))
                   ELSE ShellWords(line, i + 1, "none", <<>>, words)
         ELSE IF c = "'" THEN ShellWords(line, i + 1, "single", cur, words)
         ELSE IF c = "\\" /\ i < Len(line)
              THEN IF line[i + 1] = "\n" THEN ShellWords(line, i + 2, mode, cur, words)
                   ELSE ShellWords(line, i + 2, "word", Append(cur, line[i + 1]), words)
         ELSE ShellWords(line, i + 1, "word", Append(cur, c), words)

(***************************************************************************)
(* Model backend.  ollamaChat either returns the reply's content or throws *)
(* (fetch failure, abort after the timeout, non-2xx status, bad body).     *)
(***************************************************************************)
ChatFailures ==
    { <<"fetch failed">>, <<"This operation was aborted">>,
      <<"Ollama error (500): ", "Internal Server Error">> }

Prose == "I'll just chat."
Thanks == "thanks"

DecisionOutputs ==
    { <<>>, <<Prose>>, <<"null">>, <<"42">>,
      <<LB, M_RespondHi, RB>>,
      <<Prose, LB, M_RespondHi, RB, Thanks>>,
      <<LB, M_RespondEmpty, RB>>,
      <<LB, M_RunHealth, RB>>,
      <<Prose, LB, M_RunHealth, RB>>,
      <<LB, M_RunUnknown, RB>>,
      <<LB, M_RunInherited, RB>>,
      <<LB, M_Dance, RB>>,
      <<LB, M_NoAction, RB>>,
      <<LB, M_EmptyAction, RB>>,
      <<LB, Prose, RB>>,
      <<RB, M_RespondHi, LB>> }

SummaryOutputs == { <<"All good.">>, <<>> }

\* `Executed ${skill.title} on ${sshConfig.host}. (Summary unavailable: ${err.message})`
FallbackSummary(title, host, message) ==
    <<"Executed ", Str(title), " on ", host, ". (Summary unavailable: ">> \o message \o <<")">>

(***************************************************************************)
(* Persistence collaborator                                                *)
(***************************************************************************)
Conversations == {"s-1"}

StoredMessages ==
    << [role |-> "user", content |-> <<"is my server healthy?">>] >>

HISTORY_LIMIT == 30

\* ORDER BY timestamp ASC LIMIT $2
getConversationMessages(rows, limit) ==
    SubSeq(rows, 1, IF Len(rows) < limit THEN Len(rows) ELSE limit)

(***************************************************************************)
(* Configurations and requests                                             *)
(***************************************************************************)
ExecutionModes == {"auto", "local", "ssh", "remote"}
EnvHosts == {"", "127.0.0.1", "203.0.113.9", "::1"}
EnvUsers == {"", "deploy"}
EnvPasswords == {"", "s3cret"}

Bodies ==
    [sessionId : {"", "s-1", "s-404"},
     host : {"", "localhost", "198.51.100.7"},
     user : {"", "admin"},
     password : {"", "hunter2"}]

SkillIdInputs == {"health-check", "service-restart", "reboot-all", "constructor"}

NoBody == [sessionId |-> "", host |-> "", user |-> "", password |-> ""]
NoConfig == [host |-> NONE, user |-> NONE, password |-> NONE]

CallNames == {"getConversation", "getMessages", "decide", "runLocally",
              "runOverSsh", "summarize"}
NoCalls == [c \in CallNames |-> 0]

Started(c) == [calls EXCEPT ![c] = @ + 1]

\* sendMessage's local agent before the request is made
NoAgent == [action |-> NONE, assistant |-> Absent]

\* the chat component as mounted: useState initial values
ClientIdle ==
    /\ cpc = "idle"
    /\ isSending = FALSE
    /\ currentSessionId = ""
    /\ hookError = <<>>
    /\ effectPending = FALSE
    /\ inputValue = <<>>
    /\ attachedFiles = 0
    /\ messages = <<>>
    /\ statusMessage = <<>>
    /\ statusLevel = "neutral"
    /\ sendText = <<>>
    /\ sendFiles = 0
    /\ sendSessionId = ""
    /\ agent = NoAgent
    /\ requests = <<>>
    /\ saveFailed = {}
    /\ shown = {<<>>}
    /\ runningSkillId = ""
    /\ instantSkill = [id |-> NONE, title |-> NONE]
    /\ skillResult = [success |-> FALSE, host |-> NONE]
    /\ fIsSending = FALSE
    /\ fSeenIsSending = FALSE
    /\ fSessionId = ""
    /\ fSeenSessionId = ""
    /\ fFlows = <<>>
    /\ fMessages = <<>>

ShellIdle ==
    /\ shTarget = [host |-> NONE, user |-> NONE, password |-> NONE]
    /\ shCommand = <<>>
    /\ shPhase = "off"
    /\ shFile = NONE
    /\ shArgs = <<>>
    /\ shWords = <<>>

HistoryIdle ==
    /\ hStored = <<>>
    /\ hPhase = "off"
    /\ hHistory = <<>>
    /\ hMessages = <<>>
    /\ hQuoted = <<>>

\* the hook as mounted and not in use
HookIdle ==
    /\ memUser = ""
    /\ memSessionId = <<>>
    /\ memSeen = <<>>
    /\ mempc = "off"
    /\ memCaptured = <<>>
    /\ memCreated = <<>>
    /\ memCreateFailed = FALSE
    /\ memPosts = <<>>
    /\ memPostsAtCall = 0
    /\ memReturned = NONE
    /\ memConversations = 0
    /\ memRole = NONE

ParseIdle ==
    /\ ptext = <<>>
    /\ pphase = "off"
    /\ pvalue = JsonNull
    /\ presponse = NoResponse

RequestIdle ==
    /\ pc = "idle"
    /\ endpoint = "none"
    /\ body = NoBody
    /\ paramSkillId = NONE
    /\ history = <<>>
    /\ decisionRaw = Absent
    /\ skillId = NONE
    /\ sshConfig = NoConfig
    /\ execution = NoExecution
    /\ calls = NoCalls
    /\ ranCommand = NoCommand
    /\ response = NoResponse
    /\ chatError = Absent
    /\ child = NONE
    /\ sent = 0
    /\ connected = TRUE
    /\ clock = 0
    /\ execEndedAt = 0

ConfigInit ==
    /\ OPENMAX_OPENCLAW_EXECUTION \in ExecutionModes
    /\ OPENMAX_ALLOW_CLIENT_SSH_CONFIG \in BOOLEAN
    /\ envHost \in EnvHosts
    /\ envUser \in EnvUsers
    /\ envPassword \in EnvPasswords
    /\ envAllowKeyAuth \in BOOLEAN

Init ==
    /\ ConfigInit
    /\ RequestIdle
    /\ ParseIdle
    /\ ClientIdle
    /\ HookIdle
    /\ HistoryIdle
    /\ ShellIdle

\* the handler sends its response and returns
Answer(r) ==
    /\ response' = r
    /\ sent' = sent + 1
    /\ pc' = "done"

\* time passes while the handler runs; nothing in it looks at the connection
Tick ==
    /\ clock' = clock + 1
    /\ UNCHANGED connected

(***************************************************************************)
(* POST /api/brain/agent                                                   *)
(***************************************************************************)
\* variant: the catch does not report what failed
AgentFailed_NoDetail(message) ==
    ErrorResponse(500, <<"Failed to process agent request">>, Absent, Absent)

AgentFailed(message) ==
    ErrorResponse(500, <<"Failed to process agent request">>, message, Absent)

AgentReceive ==
    \E b \in Bodies :
        /\ pc = "idle"
        /\ endpoint' = "agent"
        /\ body' = b
        /\ IF b.sessionId = ""
           THEN /\ Answer(ErrorResponse(400, <<"sessionId is required">>, Absent, Absent))
                /\ UNCHANGED calls
           ELSE /\ pc' = "getConversation"
                /\ calls' = Started("getConversation")
                /\ UNCHANGED <<response, sent>>
        /\ Tick
        /\ UNCHANGED <<child, execEndedAt>>
        /\ UNCHANGED <<chatError, cfgVars, skillVars, flightVars, hookVars, historyVars, shellVars, parseVars, clientVars, paramSkillId, history, decisionRaw,
                       skillId, sshConfig, execution, ranCommand>>

\* variant: the handler goes on to the history without looking at the row
AgentGetConversation_NoCheck ==
    \E dbOk \in BOOLEAN :
        /\ pc = "getConversation"
        /\ endpoint = "agent"
        /\ IF ~dbOk
           THEN /\ Answer(AgentFailed(<<"db error">>))
                /\ UNCHANGED calls
           ELSE /\ pc' = "getMessages"
                /\ calls' = Started("getMessages")
                /\ UNCHANGED <<response, sent>>
        /\ Tick
        /\ UNCHANGED <<child, execEndedAt>>
        /\ UNCHANGED <<chatError, cfgVars, skillVars, flightVars, hookVars, historyVars, shellVars, parseVars, clientVars, endpoint, body, paramSkillId, history,
                       decisionRaw, skillId, sshConfig, execution, ranCommand>>

AgentGetConversation ==
    \E dbOk \in BOOLEAN :
        /\ pc = "getConversation"
        /\ endpoint = "agent"
        /\ IF ~dbOk
           THEN /\ Answer(AgentFailed(<<"db error">>))
                /\ UNCHANGED calls
           ELSE IF body.sessionId \notin Conversations
           THEN /\ Answer(ErrorResponse(404, <<"Conversation not found">>, Absent, Absent))
                /\ UNCHANGED calls
           ELSE /\ pc' = "getMessages"
                /\ calls' = Started("getMessages")
                /\ UNCHANGED <<response, sent>>
        /\ Tick
        /\ UNCHANGED <<child, execEndedAt>>
        /\ UNCHANGED <<chatError, cfgVars, skillVars, flightVars, hookVars, historyVars, shellVars, parseVars, clientVars, endpoint, body, paramSkillId, history,
                       decisionRaw, skillId, sshConfig, execution, ranCommand>>

AgentGetMessages ==
    \E dbOk \in BOOLEAN :
        /\ pc = "getMessages"
        /\ endpoint = "agent"
        /\ IF ~dbOk
           THEN /\ Answer(AgentFailed(<<"db error">>))
                /\ UNCHANGED <<calls, history>>
           ELSE /\ history' = getConversationMessages(StoredMessages, HISTORY_LIMIT)
                /\ pc' = "decide"
                /\ calls' = Started("decide")
                /\ UNCHANGED <<response, sent>>
        /\ Tick
        /\ UNCHANGED <<child, execEndedAt>>
        /\ UNCHANGED <<chatError, cfgVars, skillVars, flightVars, hookVars, historyVars, shellVars, parseVars, clientVars, endpoint, body, paramSkillId,
                       decisionRaw, skillId, sshConfig, execution, ranCommand>>

\* variant: the rejection of the decision call is caught by nobody, and the
\* request is never answered
AgentDecideFails_Unhandled ==
    \E message \in ChatFailures :
        /\ pc = "decide"
        /\ endpoint = "agent"
        /\ chatError' = message
        /\ pc' = "unhandled"
        /\ Tick
        /\ UNCHANGED <<child, execEndedAt, response, sent>>
        /\ UNCHANGED <<cfgVars, skillVars, flightVars, hookVars, historyVars, shellVars, parseVars, clientVars, endpoint, body, paramSkillId, history,
                       decisionRaw, skillId, sshConfig, execution, calls, ranCommand>>

\* the decision model call throws: the handler's catch answers
AgentDecideFails ==
    \E message \in ChatFailures :
        /\ pc = "decide"
        /\ endpoint = "agent"
        /\ chatError' = message
        /\ Answer(AgentFailed(message))
        /\ Tick
        /\ UNCHANGED <<child, execEndedAt>>
        /\ UNCHANGED <<cfgVars, skillVars, flightVars, hookVars, historyVars, shellVars, parseVars, clientVars, endpoint, body, paramSkillId, history,
                       decisionRaw, skillId, sshConfig, execution, calls, ranCommand>>

\* the decision model call returns: parse, answer or route to a runner
AgentDecide ==
    \E raw \in DecisionOutputs :
        LET reply == DecisionReply(raw)
            sid == safeJsonParse(raw).skillId
            skill == SkillLookup(sid)
            cfg == resolveSshConfig(body)
            local == shouldRunOpenClawLocally(cfg.host)
        IN
        /\ pc = "decide"
        /\ endpoint = "agent"
        /\ decisionRaw' = raw
        /\ IF reply # NoResponse
           THEN /\ Answer(reply)
                /\ UNCHANGED <<skillId, sshConfig, calls, ranCommand>>
           ELSE IF ~skill.found
           THEN /\ Answer(ErrorResponse(400, <<"Unknown skillId: ", Str(sid)>>, Absent, raw))
                /\ skillId' = sid
                /\ UNCHANGED <<sshConfig, calls, ranCommand>>
           ELSE IF MissingPassword(cfg)
           THEN /\ Answer(ErrorResponse(400, MissingPasswordText, Absent, Absent))
                /\ skillId' = sid
                /\ sshConfig' = cfg
                /\ UNCHANGED <<calls, ranCommand>>
           ELSE /\ pc' = "execute"
                /\ skillId' = sid
                /\ sshConfig' = cfg
                /\ calls' = Started(IF local THEN "runLocally" ELSE "runOverSsh")
                /\ ranCommand' = IF local THEN LocalCommand(skill.command)
                                          ELSE SshCommand(cfg, skill.command)
                /\ UNCHANGED <<response, sent>>
        /\ Tick
        /\ UNCHANGED <<child, execEndedAt>>
        /\ UNCHANGED <<chatError, cfgVars, skillVars, flightVars, hookVars, historyVars, shellVars, parseVars, clientVars, endpoint, body, paramSkillId, history,
                       execution>>

AgentExecute ==
    \E o \in ExecOutcomes :
        /\ pc = "execute"
        /\ endpoint = "agent"
        /\ execution' = IF ranCommand.runner = "local" THEN runLocally(o) ELSE runOverSsh(o)
        /\ pc' = "summarize"
        /\ calls' = Started("summarize")
        /\ child' = o.kind
        /\ execEndedAt' = clock + 1
        /\ Tick
        /\ UNCHANGED sent
        /\ UNCHANGED <<chatError, cfgVars, skillVars, flightVars, hookVars, historyVars, shellVars, parseVars, clientVars, endpoint, body, paramSkillId, history,
                       decisionRaw, skillId, sshConfig, ranCommand, response>>

\* variant: the tool record reports the exit code 0 for every run
RunSkillResponse_HidesExit(sid, title, summary, cfg, exec, raw, now) ==
    [NoResponse EXCEPT
        !.status = 200, !.action = "run_skill", !.skillId = sid, !.title = title,
        !.assistant = summary,
        !.tool = [success |-> exec.success, host |-> cfg.host, user |-> cfg.user,
                  exitCode |-> 0, stdout |-> exec.stdout,
                  stderr |-> exec.stderr,
                  error |-> IF exec.error \in {Absent, <<>>} THEN JsNull ELSE exec.error,
                  executedAt |-> now],
        !.raw = raw]

\* res.json({ action: 'run_skill', ... })
RunSkillResponse(sid, title, summary, cfg, exec, raw, now) ==
    [NoResponse EXCEPT
        !.status = 200, !.action = "run_skill", !.skillId = sid, !.title = title,
        !.assistant = summary,
        !.tool = [success |-> exec.success, host |-> cfg.host, user |-> cfg.user,
                  exitCode |-> exec.exitCode, stdout |-> exec.stdout,
                  stderr |-> exec.stderr,
                  error |-> IF exec.error \in {Absent, <<>>} THEN JsNull ELSE exec.error,
                  executedAt |-> now],
        !.raw = raw]

\* variant: the fallback sentence leaves the host out
AgentSummaryFallback_NoHost(title, host, message) ==
    <<"Executed ", Str(title), ". (Summary unavailable: ">> \o message \o <<")">>

\* summary when the summarizer call throws (agent endpoint)
AgentSummaryFallback(title, host, message) == FallbackSummary(title, host, message)

AgentSummarize ==
    \E ok \in BOOLEAN, content \in SummaryOutputs, message \in ChatFailures :
        LET skill == SkillLookup(skillId)
            summary == IF ok THEN content
                       ELSE AgentSummaryFallback(skill.title, sshConfig.host, message)
        IN
        /\ pc = "summarize"
        /\ endpoint = "agent"
        /\ chatError' = IF ok THEN Absent ELSE message
        /\ Answer(RunSkillResponse(skillId, skill.title, summary, sshConfig,
                                   execution, decisionRaw, clock + 1))
        /\ Tick
        /\ UNCHANGED <<child, execEndedAt>>
        /\ UNCHANGED <<cfgVars, skillVars, flightVars, hookVars, historyVars, shellVars, parseVars, clientVars, endpoint, body, paramSkillId, history,
                       decisionRaw, skillId, sshConfig, execution, calls, ranCommand>>

(***************************************************************************)
(* POST /api/openclaw/skills/:skillId                                      *)
(***************************************************************************)
\* res.json({ success, skillId, title, host, user, exitCode, stdout, stderr,
\*            summary, error, executedAt }): the flat shape, no action;
\* executedAt is new Date() read while the response is built
SkillResponse(sid, title, summary, cfg, exec, now) ==
    [NoResponse EXCEPT
        !.status = 200, !.skillId = sid, !.title = title, !.summary = summary,
        !.tool = [success |-> exec.success, host |-> cfg.host, user |-> cfg.user,
                  exitCode |-> exec.exitCode, stdout |-> exec.stdout,
                  stderr |-> exec.stderr,
                  error |-> IF exec.error \in {Absent, <<>>} THEN JsNull ELSE exec.error,
                  executedAt |-> now]]

SkillReceive ==
    \E sid \in SkillIdInputs, b \in Bodies :
        LET skill == SkillLookup(sid)
            cfg == resolveSshConfig(b)
            local == shouldRunOpenClawLocally(cfg.host)
        IN
        /\ pc = "idle"
        /\ b.sessionId = ""
        /\ endpoint' = "skill"
        /\ body' = b
        /\ paramSkillId' = sid
        /\ IF ~skill.found
           THEN /\ Answer(ErrorResponse(404, <<"Unknown skill: ", sid>>, Absent, Absent))
                /\ UNCHANGED <<skillId, sshConfig, calls, ranCommand>>
           ELSE IF MissingPassword(cfg)
           THEN /\ Answer(ErrorResponse(400, MissingPasswordText, Absent, Absent))
                /\ skillId' = sid
                /\ sshConfig' = cfg
                /\ UNCHANGED <<calls, ranCommand>>
           ELSE /\ pc' = "execute"
                /\ skillId' = sid
                /\ sshConfig' = cfg
                /\ calls' = Started(IF local THEN "runLocally" ELSE "runOverSsh")
                /\ ranCommand' = IF local THEN LocalCommand(skill.command)
                                          ELSE SshCommand(cfg, skill.command)
                /\ UNCHANGED <<response, sent>>
        /\ Tick
        /\ UNCHANGED <<child, execEndedAt>>
        /\ UNCHANGED <<chatError, cfgVars, skillVars, flightVars, hookVars, historyVars, shellVars, parseVars, clientVars, history, decisionRaw, execution>>

SkillExecute ==
    \E o \in ExecOutcomes :
        /\ pc = "execute"
        /\ endpoint = "skill"
        /\ execution' = IF ranCommand.runner = "local" THEN runLocally(o) ELSE runOverSsh(o)
        /\ pc' = "summarize"
        /\ calls' = Started("summarize")
        /\ child' = o.kind
        /\ execEndedAt' = clock + 1
        /\ Tick
        /\ UNCHANGED sent
        /\ UNCHANGED <<chatError, cfgVars, skillVars, flightVars, hookVars, historyVars, shellVars, parseVars, clientVars, endpoint, body, paramSkillId, history,
                       decisionRaw, skillId, sshConfig, ranCommand, response>>

\* summary when the summarizer call throws (skill endpoint)
SkillSummaryFallback(title, host, message) == JsNull

SkillSummarize ==
    \E ok \in BOOLEAN, content \in SummaryOutputs, message \in ChatFailures :
        LET skill == SkillLookup(skillId)
            summary == IF ok THEN content
                       ELSE SkillSummaryFallback(skill.title, sshConfig.host, message)
        IN
        /\ pc = "summarize"
        /\ endpoint = "skill"
        /\ chatError' = IF ok THEN Absent ELSE message
        /\ Answer(SkillResponse(skillId, skill.title, summary, sshConfig, execution,
                                clock + 1))
        /\ Tick
        /\ UNCHANGED <<child, execEndedAt>>
        /\ UNCHANGED <<cfgVars, skillVars, flightVars, hookVars, historyVars, shellVars, parseVars, clientVars, endpoint, body, paramSkillId, history,
                       decisionRaw, skillId, sshConfig, execution, calls, ranCommand>>

\* the request is over; the server waits for the next one
Complete ==
    /\ pc = "done"
    /\ pc' = "idle"
    /\ endpoint' = "none"
    /\ body' = NoBody
    /\ paramSkillId' = NONE
    /\ history' = <<>>
    /\ decisionRaw' = Absent
    /\ skillId' = NONE
    /\ sshConfig' = NoConfig
    /\ execution' = NoExecution
    /\ calls' = NoCalls
    /\ ranCommand' = NoCommand
    /\ response' = NoResponse
    /\ chatError' = Absent
    /\ child' = NONE
    /\ sent' = 0
    /\ connected' = TRUE
    /\ clock' = 0
    /\ execEndedAt' = 0
    /\ UNCHANGED <<cfgVars, skillVars, flightVars, hookVars, historyVars, shellVars, parseVars, clientVars>>

\* the caller goes away while its request is in flight; the handlers register
\* no listener for it, so nothing but the connection changes
Disconnect ==
    /\ pc \notin {"idle", "done"}
    /\ connected
    /\ connected' = FALSE
    /\ UNCHANGED <<cfgVars, skillVars, flightVars, hookVars, historyVars, shellVars, parseVars, clientVars, pc, endpoint, body, paramSkillId, history,
                   decisionRaw, skillId, sshConfig, execution, calls, ranCommand,
                   response, chatError, child, sent, clock, execEndedAt>>

Next ==
    \/ AgentReceive
    \/ AgentGetConversation
    \/ AgentGetMessages
    \/ AgentDecideFails
    \/ AgentDecide
    \/ AgentExecute
    \/ AgentSummarize
    \/ SkillReceive
    \/ SkillExecute
    \/ SkillSummarize
    \/ Disconnect
    \/ Complete

Spec == Init /\ [][Next]_vars

\* Every awaited call of the agent handler settles (it returns, fails, or its
\* timeout fires), and the handler's continuation then runs.
AgentProgress ==
    /\ WF_vars(AgentGetConversation)
    /\ WF_vars(AgentGetMessages)
    /\ WF_vars(AgentDecide \/ AgentDecideFails)
    /\ WF_vars(AgentExecute)
    /\ WF_vars(AgentSummarize)

SpecLive == Init /\ [][Next]_vars /\ AgentProgress

(***************************************************************************)
(* Parser harness: safeJsonParse and the decision reply applied to every   *)
(* text of at most MaxRawLen tokens.                                       *)
(***************************************************************************)
MaxRawLen == 5

ParseTokens == {LB, RB, Prose, Thanks, M_RespondHi, M_Dance, "null"}

ParseTexts == UNION { [1..n -> ParseTokens] : n \in 0..MaxRawLen }

ParseInit ==
    /\ OPENMAX_OPENCLAW_EXECUTION = "auto"
    /\ OPENMAX_ALLOW_CLIENT_SSH_CONFIG = FALSE
    /\ envHost = ""
    /\ envUser = ""
    /\ envPassword = ""
    /\ envAllowKeyAuth = FALSE
    /\ RequestIdle
    /\ ClientIdle
    /\ HookIdle
    /\ HistoryIdle
    /\ ShellIdle
    /\ ptext \in ParseTexts
    /\ pphase = "input"
    /\ pvalue = JsonNull
    /\ presponse = NoResponse

ParseApply ==
    /\ pphase = "input"
    /\ pvalue' = safeJsonParse(ptext)
    /\ pphase' = "parsed"
    /\ UNCHANGED <<cfgVars, skillVars, flightVars, hookVars, historyVars, shellVars, reqVars, clientVars, ptext, presponse>>

ParseAnswer ==
    /\ pphase = "parsed"
    /\ presponse' = DecisionReply(ptext)
    /\ pphase' = "answered"
    /\ UNCHANGED <<cfgVars, skillVars, flightVars, hookVars, historyVars, shellVars, reqVars, clientVars, ptext, pvalue>>

ParseNext ==
    \/ ParseApply
    \/ ParseAnswer

SpecParse == ParseInit /\ [][ParseNext]_vars

(***************************************************************************)
(* Client: the chat component's send flow (sendMessage) with the           *)
(* conversation hook (startConversation, saveMessage, loadConversations).  *)
(* An action is one task of the event loop: the code that runs from the    *)
(* moment an awaited request settles to the next await on a request.  The  *)
(* screen shows the state a task leaves behind.                            *)
(***************************************************************************)
MaxMessages == 4

Blank == " "
NewLines == "\n\n"
Whitespace == {Blank, NewLines}

RECURSIVE trimStart(_)
trimStart(t) == IF t # <<>> /\ Head(t) \in Whitespace THEN trimStart(Tail(t)) ELSE t

RECURSIVE trimEnd(_)
trimEnd(t) ==
    IF t # <<>> /\ t[Len(t)] \in Whitespace THEN trimEnd(SubSeq(t, 1, Len(t) - 1)) ELSE t

\* String.prototype.trim
trim(t) == trimEnd(trimStart(t))

SyncWarning == <<"Unable to sync with API. Local view is still updated.">>
ThinkingText == <<"Thinking...">>
CouldNotCreateText == <<"Could not create conversation.">>
TroubleText == "I had trouble reaching the brain service."

ClientTexts == { <<>>, <<Blank>>, <<"hello">> }

\* what fetch('/api/brain/agent') and response.json() give the client
AgentOutcomes ==
    { [kind |-> "ok", action |-> "respond", assistant |-> <<"Hi there.">>, message |-> <<>>],
      [kind |-> "ok", action |-> "respond", assistant |-> <<Blank>>, message |-> <<>>],
      [kind |-> "ok", action |-> "run_skill", assistant |-> <<"All good.">>, message |-> <<>>],
      [kind |-> "ok", action |-> "run_skill", assistant |-> <<>>, message |-> <<>>],
      [kind |-> "okNull", action |-> NONE, assistant |-> Absent, message |-> <<>>],
      [kind |-> "http", action |-> NONE, assistant |-> Absent,
       message |-> <<"Failed to process agent request">>],
      [kind |-> "http", action |-> NONE, assistant |-> Absent, message |-> <<>>],
      [kind |-> "network", action |-> NONE, assistant |-> Absent,
       message |-> <<"Failed to fetch">>],
      [kind |-> "badBody", action |-> NONE, assistant |-> Absent,
       message |-> <<"Unexpected token < in JSON at position 0">>] }

StartFailures == { <<"Failed to create conversation">>, <<"Failed to fetch">> }

\* the status left by a run of setStatusMessage/setStatusLevel calls made in
\* one task: the last call wins
LastWrite(writes) == writes[Len(writes)]

\* persistConversationTurn: the status after its continuation has run
persistConversationTurn(saved, status) ==
    IF saved THEN status ELSE [message |-> SyncWarning, level |-> "error"]

\* the user types or attaches a file
Compose ==
    \E text \in ClientTexts, files \in 0..1 :
        /\ <<text, files>> # <<inputValue, attachedFiles>>
        /\ inputValue' = text
        /\ attachedFiles' = files
        /\ UNCHANGED <<cfgVars, skillVars, flightVars, hookVars, historyVars, shellVars, reqVars, parseVars, cpc, isSending, currentSessionId,
                       hookError, effectPending, messages, statusMessage, statusLevel,
                       sendText, sendFiles, sendSessionId, agent, requests, saveFailed,
                       shown>>

\* sendMessage from the user message to the await on saveMessage
BeginTurn(session, text, files, issued) ==
    /\ sendSessionId' = session
    /\ messages' = Append(messages, [role |-> "user",
                                     text |-> IF text = <<>> THEN Absent ELSE text])
    /\ inputValue' = <<>>
    /\ attachedFiles' = 0
    /\ requests' = Append(issued, "POST /api/messages user")
    /\ cpc' = "saveUser"

\* sendMessage is invoked: up to the first await
SendMessage ==
    \E overrideText \in {Absent} \cup ClientTexts :
        LET text == trim(IF overrideText # Absent THEN overrideText ELSE inputValue)
            files == IF overrideText \notin {Absent, <<>>} THEN 0 ELSE attachedFiles
        IN
        /\ cpc = "idle"
        /\ ~effectPending
        /\ ~isSending
        /\ ~(text = <<>> /\ files = 0)
        /\ Len(messages) + 2 <= MaxMessages
        /\ isSending' = TRUE
        /\ statusMessage' = <<>>
        /\ statusLevel' = "neutral"
        /\ shown' = {<<>>}
        /\ sendText' = text
        /\ sendFiles' = files
        /\ agent' = NoAgent
        /\ saveFailed' = {}
        /\ IF currentSessionId = ""
           THEN /\ cpc' = "startConversation"
                /\ requests' = <<"POST /api/conversations">>
                /\ hookError' = <<>>
                /\ UNCHANGED <<sendSessionId, messages, inputValue, attachedFiles>>
           ELSE /\ BeginTurn(currentSessionId, text, files, <<>>)
                /\ UNCHANGED hookError
        /\ UNCHANGED <<cfgVars, skillVars, flightVars, hookVars, historyVars, shellVars, reqVars, parseVars, currentSessionId, effectPending>>

\* POST /api/conversations settles: startConversation returns the new session
\* id, or null after setError
StartConversationReturns ==
    \E ok \in BOOLEAN, failure \in StartFailures :
        /\ cpc = "startConversation"
        /\ IF ok
           THEN /\ currentSessionId' = "s-1"
                /\ BeginTurn("s-1", sendText, sendFiles, requests)
                /\ shown' = shown \cup {statusMessage}
                /\ UNCHANGED <<isSending, hookError, effectPending, statusMessage,
                               statusLevel>>
           ELSE /\ hookError' = failure
                /\ effectPending' = TRUE
                /\ statusMessage' = CouldNotCreateText
                /\ statusLevel' = "error"
                /\ shown' = shown \cup {CouldNotCreateText}
                /\ isSending' = FALSE
                /\ cpc' = "idle"
                /\ UNCHANGED <<currentSessionId, sendSessionId, messages, inputValue,
                               attachedFiles, requests>>
        /\ UNCHANGED <<cfgVars, skillVars, flightVars, hookVars, historyVars, shellVars, reqVars, parseVars, sendText, sendFiles, agent, saveFailed>>

\* useEffect(() => { if (error) { setStatusMessage(error); ... } }, [error])
ErrorEffect ==
    /\ effectPending
    /\ effectPending' = FALSE
    /\ statusMessage' = hookError
    /\ statusLevel' = "error"
    /\ shown' = shown \cup {hookError}
    /\ UNCHANGED <<cfgVars, skillVars, flightVars, hookVars, historyVars, shellVars, reqVars, parseVars, cpc, isSending, currentSessionId, hookError,
                   inputValue, attachedFiles, messages, sendText, sendFiles, sendSessionId,
                   agent, requests, saveFailed>>

\* POST /api/messages for the user turn settles: persistConversationTurn
\* finishes, then sendMessage runs on to the agent request
SaveUserReturns ==
    \E saved \in BOOLEAN :
        LET afterPersist == persistConversationTurn(saved, [message |-> statusMessage,
                                                            level |-> statusLevel])
            status == LastWrite(<<afterPersist,
                                  [message |-> ThinkingText, level |-> "neutral"]>>)
        IN
        /\ cpc = "saveUser"
        /\ saveFailed' = IF saved THEN saveFailed ELSE saveFailed \cup {"user"}
        /\ currentSessionId' = IF saved THEN sendSessionId ELSE currentSessionId
        /\ statusMessage' = status.message
        /\ statusLevel' = status.level
        /\ shown' = shown \cup {status.message}
        /\ requests' = Append(requests, "POST /api/brain/agent")
        /\ cpc' = "agent"
        /\ UNCHANGED <<cfgVars, skillVars, flightVars, hookVars, historyVars, shellVars, reqVars, parseVars, isSending, hookError, effectPending,
                       inputValue, attachedFiles, messages, sendText, sendFiles,
                       sendSessionId, agent>>

AssistantText_NoFallback(a) == IF a.assistant = Absent THEN <<>> ELSE trim(a.assistant)

\* the text shown and persisted for the agent's reply
AssistantText(a) ==
    IF a.assistant = Absent THEN OkText ELSE TextOrElse(trim(a.assistant), OkText)

\* the agent request settles: the reply (or the notice built in the catch) is
\* appended and its persistence is started
AgentReturns ==
    \E o \in AgentOutcomes :
        LET failed == o.kind \in {"http", "network", "badBody"}
            msg == IF o.kind = "http"
                   THEN TextOrElse(o.message, <<"Agent request failed">>)
                   ELSE o.message
            reply == IF failed
                     THEN [action |-> "respond",
                           assistant |-> <<TroubleText, NewLines>> \o msg]
                     ELSE IF o.kind = "okNull" THEN NoAgent
                     ELSE [action |-> o.action, assistant |-> o.assistant]
        IN
        /\ cpc = "agent"
        /\ agent' = reply
        /\ statusLevel' = IF failed THEN "error" ELSE statusLevel
        /\ messages' = Append(messages, [role |-> "ai", text |-> AssistantText(reply)])
        /\ shown' = shown \cup {statusMessage}
        /\ requests' = Append(requests, "POST /api/messages assistant")
        /\ cpc' = "saveAssistant"
        /\ UNCHANGED <<cfgVars, skillVars, flightVars, hookVars, historyVars, shellVars, reqVars, parseVars, isSending, currentSessionId, hookError,
                       effectPending, inputValue, attachedFiles, statusMessage, sendText,
                       sendFiles, sendSessionId, saveFailed>>

\* POST /api/messages for the assistant turn settles: persistConversationTurn
\* finishes, then sendMessage clears the status and refreshes the list
SaveAssistantReturns ==
    \E saved \in BOOLEAN :
        LET afterPersist == persistConversationTurn(saved, [message |-> statusMessage,
                                                            level |-> statusLevel])
            status == LastWrite(<<afterPersist, [message |-> <<>>, level |-> "neutral"]>>)
        IN
        /\ cpc = "saveAssistant"
        /\ saveFailed' = IF saved THEN saveFailed ELSE saveFailed \cup {"assistant"}
        /\ currentSessionId' = IF saved THEN sendSessionId ELSE currentSessionId
        /\ statusMessage' = status.message
        /\ statusLevel' = status.level
        /\ shown' = shown \cup {status.message}
        /\ requests' = Append(requests, "GET /api/conversations")
        /\ cpc' = "loadConversations"
        /\ UNCHANGED <<cfgVars, skillVars, flightVars, hookVars, historyVars, shellVars, reqVars, parseVars, isSending, hookError, effectPending,
                       inputValue, attachedFiles, messages, sendText, sendFiles,
                       sendSessionId, agent>>

\* loadConversations settles (it never throws): setIsSending(false)
LoadConversationsReturns ==
    /\ cpc = "loadConversations"
    /\ isSending' = FALSE
    /\ cpc' = "idle"
    /\ UNCHANGED <<cfgVars, skillVars, flightVars, hookVars, historyVars, shellVars, reqVars, parseVars, currentSessionId, hookError, effectPending,
                   inputValue, attachedFiles, messages, statusMessage, statusLevel,
                   sendText, sendFiles, sendSessionId, agent, requests, saveFailed, shown>>

(***************************************************************************)
(* runInstantSkill: the chat component runs one skill through              *)
(* /api/openclaw/skills/:skillId and reports its result as a chat turn.    *)
(***************************************************************************)
OPENCLAW_INSTANT_SKILLS ==
    { [id |-> "health-check", title |-> "System Health Check"],
      [id |-> "quick-fix", title |-> "Auto Fix Orbit"] }

\* what fetch(`/api/openclaw/skills/${skill.id}`) and response.json() give
SkillOutcomes ==
    { [kind |-> "ok", success |-> TRUE, host |-> "127.0.0.1", summary |-> <<"All good.">>,
       stdout |-> <<"orbit: healthy">>, stderr |-> <<>>, error |-> JsNull, message |-> <<>>],
      [kind |-> "ok", success |-> TRUE, host |-> "127.0.0.1", summary |-> JsNull,
       stdout |-> <<"orbit: healthy", NewLines>>, stderr |-> <<>>, error |-> JsNull,
       message |-> <<>>],
      [kind |-> "ok", success |-> TRUE, host |-> "127.0.0.1", summary |-> <<Blank>>,
       stdout |-> <<>>, stderr |-> <<>>, error |-> JsNull, message |-> <<>>],
      [kind |-> "ok", success |-> FALSE, host |-> "168.231.78.113", summary |-> JsNull,
       stdout |-> <<Blank>>, stderr |-> <<"permission denied">>,
       error |-> <<"Command failed">>, message |-> <<>>],
      [kind |-> "http", success |-> FALSE, host |-> NONE, summary |-> JsNull,
       stdout |-> <<>>, stderr |-> <<>>, error |-> JsNull,
       message |-> <<"Failed to execute OpenClaw skill">>],
      [kind |-> "http", success |-> FALSE, host |-> NONE, summary |-> JsNull,
       stdout |-> <<>>, stderr |-> <<>>, error |-> JsNull, message |-> <<>>],
      [kind |-> "network", success |-> FALSE, host |-> NONE, summary |-> JsNull,
       stdout |-> <<>>, stderr |-> <<>>, error |-> JsNull, message |-> <<"Failed to fetch">>],
      [kind |-> "badBody", success |-> FALSE, host |-> NONE, summary |-> JsNull,
       stdout |-> <<>>, stderr |-> <<>>, error |-> JsNull,
       message |-> <<"Unexpected token < in JSON at position 0">>] }

\* skillResult after the try/catch around the request
SkillResultOf(o, skill) ==
    IF o.kind = "ok"
    THEN [success |-> o.success, title |-> skill.title, host |-> o.host,
          summary |-> o.summary, stdout |-> o.stdout, stderr |-> o.stderr, error |-> o.error]
    ELSE [success |-> FALSE, title |-> skill.title, host |-> "unavailable",
          summary |-> Absent, stdout |-> <<>>, stderr |-> <<>>,
          error |-> IF o.kind = "http"
                    THEN TextOrElse(o.message, <<"Skill execution failed">>)
                    ELSE o.message]

\* outputParts as runInstantSkill fills it
OutputParts(r) ==
    IF r.summary \notin {Absent, JsNull, <<>>} /\ trim(r.summary) # <<>>
    THEN << trim(r.summary) >>
    ELSE << IF r.success THEN <<r.title, " completed on ", r.host, ".">>
            ELSE <<r.title, " finished with issues.">> >>
         \o (IF r.error \notin {Absent, JsNull, <<>>} THEN << <<"Error: ">> \o r.error >> ELSE <<>>)
         \o (IF r.stdout \notin {Absent, JsNull, <<>>} /\ trim(r.stdout) # <<>> THEN << trim(r.stdout) >> ELSE <<>>)
         \o (IF r.stderr \notin {Absent, JsNull, <<>>} /\ trim(r.stderr) # <<>>
             THEN << <<"STDERR:\n">> \o trim(r.stderr) >> ELSE <<>>)

\* parts.join('\n\n')
RECURSIVE JoinParts(_)
JoinParts(parts) ==
    IF parts = <<>> THEN <<>>
    ELSE IF Len(parts) = 1 THEN parts[1]
    ELSE parts[1] \o <<NewLines>> \o JoinParts(Tail(parts))

\* assistantText || `${skill.title} completed.`; slice(0, 8000) keeps the
\* texts of this model whole
SkillAssistantText(r, skill) ==
    TextOrElse(JoinParts(OutputParts(r)), <<skill.title, " completed.">>)

\* runInstantSkill from the user message to the await on saveMessage
BeginSkillTurn(session, skill, issued) ==
    /\ sendSessionId' = session
    /\ messages' = Append(messages, [role |-> "user", text |-> <<"Run skill: ", skill.title>>])
    /\ requests' = Append(issued, "POST /api/messages user")
    /\ cpc' = "skillSaveUser"

\* runInstantSkill is invoked: up to the first await
RunInstantSkill ==
    \E skill \in OPENCLAW_INSTANT_SKILLS :
        /\ cpc = "idle"
        /\ ~effectPending
        /\ ~isSending
        /\ Len(messages) + 2 <= MaxMessages
        /\ isSending' = TRUE
        /\ runningSkillId' = skill.id
        /\ instantSkill' = skill
        /\ skillResult' = [success |-> FALSE, host |-> NONE]
        /\ statusMessage' = <<"Running ", skill.title, "...">>
        /\ statusLevel' = "neutral"
        /\ shown' = {<<"Running ", skill.title, "...">>}
        /\ saveFailed' = {}
        /\ IF currentSessionId = ""
           THEN /\ cpc' = "skillStartConversation"
                /\ requests' = <<"POST /api/conversations">>
                /\ hookError' = <<>>
                /\ UNCHANGED <<sendSessionId, messages>>
           ELSE /\ BeginSkillTurn(currentSessionId, skill, <<>>)
                /\ UNCHANGED hookError
        /\ UNCHANGED <<cfgVars, reqVars, parseVars, shellVars, historyVars, hookVars, flightVars,
                       currentSessionId, effectPending, inputValue, attachedFiles, sendText,
                       sendFiles, agent>>

\* POST /api/conversations settles for runInstantSkill
SkillStartConversationReturns ==
    \E ok \in BOOLEAN, failure \in StartFailures :
        /\ cpc = "skillStartConversation"
        /\ IF ok
           THEN /\ currentSessionId' = "s-1"
                /\ BeginSkillTurn("s-1", instantSkill, requests)
                /\ shown' = shown \cup {statusMessage}
                /\ UNCHANGED <<isSending, hookError, effectPending, statusMessage,
                               statusLevel, skillVars>>
           ELSE /\ hookError' = failure
                /\ effectPending' = TRUE
                /\ statusMessage' = <<"Could not start a conversation for ",
                                      instantSkill.title, ".">>
                /\ statusLevel' = "error"
                /\ shown' = shown \cup {statusMessage'}
                /\ runningSkillId' = ""
                /\ instantSkill' = [id |-> NONE, title |-> NONE]
                /\ isSending' = FALSE
                /\ cpc' = "idle"
                /\ UNCHANGED <<currentSessionId, sendSessionId, messages, requests,
                               skillResult>>
        /\ UNCHANGED <<cfgVars, reqVars, parseVars, shellVars, historyVars, hookVars, flightVars,
                       inputValue, attachedFiles, sendText, sendFiles, agent, saveFailed>>

\* POST /api/messages for the user turn settles: persistConversationTurn
\* finishes, then runInstantSkill runs on to the skill request
SkillSaveUserReturns ==
    \E saved \in BOOLEAN :
        LET status == persistConversationTurn(saved, [message |-> statusMessage,
                                                      level |-> statusLevel])
        IN
        /\ cpc = "skillSaveUser"
        /\ saveFailed' = IF saved THEN saveFailed ELSE saveFailed \cup {"user"}
        /\ currentSessionId' = IF saved THEN sendSessionId ELSE currentSessionId
        /\ statusMessage' = status.message
        /\ statusLevel' = status.level
        /\ shown' = shown \cup {status.message}
        /\ requests' = Append(requests, "POST /api/openclaw/skills")
        /\ cpc' = "skill"
        /\ UNCHANGED <<cfgVars, reqVars, parseVars, shellVars, historyVars, hookVars, flightVars,
                       skillVars, isSending, hookError, effectPending, inputValue,
                       attachedFiles, messages, sendText, sendFiles, sendSessionId, agent>>

\* the skill request settles: the result (or the one built in the catch) is
\* rendered as the assistant's message and its persistence is started
SkillReturns ==
    \E o \in SkillOutcomes :
        LET r == SkillResultOf(o, instantSkill) IN
        /\ cpc = "skill"
        /\ skillResult' = [success |-> r.success, host |-> r.host]
        /\ messages' = Append(messages, [role |-> "ai",
                                         text |-> SkillAssistantText(r, instantSkill)])
        /\ shown' = shown \cup {statusMessage}
        /\ requests' = Append(requests, "POST /api/messages assistant")
        /\ cpc' = "skillSaveAssistant"
        /\ UNCHANGED <<cfgVars, reqVars, parseVars, shellVars, historyVars, hookVars, flightVars,
                       runningSkillId, instantSkill, isSending, currentSessionId, hookError,
                       effectPending, inputValue, attachedFiles, statusMessage, statusLevel,
                       sendText, sendFiles, sendSessionId, agent, saveFailed>>

\* POST /api/messages for the assistant turn settles: persistConversationTurn
\* finishes, then runInstantSkill sets the final status and refreshes the list
SkillSaveAssistantReturns ==
    \E saved \in BOOLEAN :
        LET afterPersist == persistConversationTurn(saved, [message |-> statusMessage,
                                                            level |-> statusLevel])
            final == IF skillResult.success
                     THEN [message |-> <<instantSkill.title, " completed on ",
                                         skillResult.host, ".">>,
                           level |-> "neutral"]
                     ELSE [message |-> <<instantSkill.title, " completed with warnings.">>,
                           level |-> "error"]
            status == LastWrite(<<afterPersist, final>>)
        IN
        /\ cpc = "skillSaveAssistant"
        /\ saveFailed' = IF saved THEN saveFailed ELSE saveFailed \cup {"assistant"}
        /\ currentSessionId' = IF saved THEN sendSessionId ELSE currentSessionId
        /\ statusMessage' = status.message
        /\ statusLevel' = status.level
        /\ shown' = shown \cup {status.message}
        /\ requests' = Append(requests, "GET /api/conversations")
        /\ cpc' = "skillLoadConversations"
        /\ UNCHANGED <<cfgVars, reqVars, parseVars, shellVars, historyVars, hookVars, flightVars,
                       skillVars, isSending, hookError, effectPending, inputValue,
                       attachedFiles, messages, sendText, sendFiles, sendSessionId, agent>>

\* loadConversations settles: setRunningSkillId(null), setIsSending(false)
SkillLoadConversationsReturns ==
    /\ cpc = "skillLoadConversations"
    /\ runningSkillId' = ""
    /\ instantSkill' = [id |-> NONE, title |-> NONE]
    /\ skillResult' = [success |-> FALSE, host |-> NONE]
    /\ isSending' = FALSE
    /\ cpc' = "idle"
    /\ UNCHANGED <<cfgVars, reqVars, parseVars, shellVars, historyVars, hookVars, flightVars,
                   currentSessionId, hookError, effectPending, inputValue, attachedFiles,
                   messages, statusMessage, statusLevel, sendText, sendFiles, sendSessionId,
                   agent, requests, saveFailed, shown>>

ClientInit ==
    /\ OPENMAX_OPENCLAW_EXECUTION = "auto"
    /\ OPENMAX_ALLOW_CLIENT_SSH_CONFIG = FALSE
    /\ envHost = ""
    /\ envUser = ""
    /\ envPassword = ""
    /\ envAllowKeyAuth = FALSE
    /\ RequestIdle
    /\ ParseIdle
    /\ ClientIdle
    /\ HookIdle
    /\ HistoryIdle
    /\ ShellIdle

ClientNext ==
    \/ Compose
    \/ SendMessage
    \/ StartConversationReturns
    \/ ErrorEffect
    \/ SaveUserReturns
    \/ AgentReturns
    \/ SaveAssistantReturns
    \/ LoadConversationsReturns
    \/ RunInstantSkill
    \/ SkillStartConversationReturns
    \/ SkillSaveUserReturns
    \/ SkillReturns
    \/ SkillSaveAssistantReturns
    \/ SkillLoadConversationsReturns

SpecClient == ClientInit /\ [][ClientNext]_vars

\* every request the component awaits settles: fetch resolves or rejects
SpecClientLive ==
    SpecClient /\ WF_vars(StartConversationReturns \/ SaveUserReturns \/ AgentReturns
                              \/ SaveAssistantReturns \/ LoadConversationsReturns
                              \/ SkillStartConversationReturns \/ SkillSaveUserReturns
                              \/ SkillReturns \/ SkillSaveAssistantReturns
                              \/ SkillLoadConversationsReturns)

(***************************************************************************)
(* Harness for the ssh invocation: runOverSsh builds the child process's   *)
(* file and argument vector for a target and a command, and the remote     *)
(* login shell reads the command line it is sent.                          *)
(***************************************************************************)
MaxCmdLen == 3

RECURSIVE CharSeqs(_)
CharSeqs(n) ==
    IF n = 0 THEN {<<>>}
    ELSE CharSeqs(n - 1) \cup {Append(s, c) : s \in {t \in CharSeqs(n - 1) : Len(t) = n - 1}, c \in {"a", " ", "'", "\\", "\n"}}

ShellInit ==
    /\ OPENMAX_OPENCLAW_EXECUTION = "auto"
    /\ OPENMAX_ALLOW_CLIENT_SSH_CONFIG = FALSE
    /\ envHost = ""
    /\ envUser = ""
    /\ envPassword = ""
    /\ envAllowKeyAuth = FALSE
    /\ RequestIdle
    /\ ParseIdle
    /\ ClientIdle
    /\ HookIdle
    /\ HistoryIdle
    \* a target as resolveSshConfig returns it: host and user are never empty
    /\ shTarget \in [host : {"vps.example", "10.0.0.7"}, user : {"root", "deploy"},
                    password : {"", "hunter2"}]
    /\ shCommand \in CharSeqs(MaxCmdLen)
    /\ shPhase = "input"
    /\ shFile = NONE
    /\ shArgs = <<>>
    /\ shWords = <<>>

\* runOverSsh up to the execFile call
ShellSpawn ==
    /\ shPhase = "input"
    /\ LET baseSshArgs == buildSshArgs(shTarget.host, shTarget.user, remoteCommand(shCommand))
       IN  /\ shFile' = execCommand(shTarget.password)
           /\ shArgs' = execArgs(shTarget.password, baseSshArgs)
    /\ shPhase' = "spawned"
    /\ UNCHANGED <<cfgVars, skillVars, flightVars, hookVars, historyVars, reqVars, parseVars, clientVars, shTarget, shCommand, shWords>>

\* the remote login shell splits the command line it received into words
ShellRead ==
    /\ shPhase = "spawned"
    /\ shWords' = ShellWords(shArgs[Len(shArgs)], 1, "none", <<>>, <<>>)
    /\ shPhase' = "parsed"
    /\ UNCHANGED <<cfgVars, skillVars, flightVars, hookVars, historyVars, reqVars, parseVars, clientVars, shTarget, shCommand, shFile, shArgs>>

ShellNext == ShellSpawn \/ ShellRead

SpecShell == ShellInit /\ [][ShellNext]_vars

(***************************************************************************)
(* Harness for the history the agent handler reads: a stored conversation  *)
(* of any length up to MaxStored, the rows the handler fetches, the        *)
(* messages it sends to the decision model and the user request it quotes  *)
(* to the summarizer.                                                      *)
(***************************************************************************)
MaxStored == 32

RoleAt(shape, i, n) ==
    CASE shape = "turns" -> IF i % 2 = 1 THEN "user" ELSE "assistant"
      [] shape = "notes" -> IF i % 3 = 1 THEN "user" ELSE IF i % 3 = 2 THEN "assistant" ELSE "system"
      [] shape = "userOnly" -> "user"
      [] OTHER -> IF (n - i) % 2 = 1 THEN "user" ELSE "assistant"

\* rows as addMessage inserted them, in timestamp order, each with its own content
Conversation(shape, n) ==
    [i \in 1..n |-> [role |-> RoleAt(shape, i, n), content |-> <<"turn ", ToString(i)>>]]

\* [{role: 'system', content: system}, ...history.map(...)]
ollamaMessages(rows) ==
    << [role |-> "system", content |-> <<"You are OpenClaw Brain inside OpenMax.">>] >>
    \o [i \in 1..Len(rows) |->
          [role |-> IF rows[i].role = "user" THEN "user" ELSE "assistant",
           content |-> IF rows[i].role = "system"
                       THEN <<"[SYSTEM NOTE]\n">> \o rows[i].content
                       ELSE rows[i].content]]

\* history.filter(m => m.role === 'user').slice(-1)[0]?.content || ''
UserRequest(rows) ==
    LET users == SelectSeq(rows, LAMBDA m : m.role = "user")
    IN  IF users = <<>> THEN <<>> ELSE users[Len(users)].content

HistoryInit ==
    /\ OPENMAX_OPENCLAW_EXECUTION = "auto"
    /\ OPENMAX_ALLOW_CLIENT_SSH_CONFIG = FALSE
    /\ envHost = ""
    /\ envUser = ""
    /\ envPassword = ""
    /\ envAllowKeyAuth = FALSE
    /\ RequestIdle
    /\ ParseIdle
    /\ ClientIdle
    /\ HookIdle
    /\ ShellIdle
    /\ \E shape \in {"turns", "notes", "userOnly", "replyLast"}, n \in 0..MaxStored : hStored = Conversation(shape, n)
    /\ hPhase = "stored"
    /\ hHistory = <<>>
    /\ hMessages = <<>>
    /\ hQuoted = <<>>

\* the agent handler reads the history and builds the decision messages
HistoryFetch ==
    /\ hPhase = "stored"
    /\ hHistory' = getConversationMessages(hStored, HISTORY_LIMIT)
    /\ hMessages' = ollamaMessages(hHistory')
    /\ hPhase' = "fetched"
    /\ UNCHANGED <<cfgVars, skillVars, flightVars, hookVars, reqVars, parseVars, clientVars, shellVars, hStored, hQuoted>>

\* the run_skill path builds the summarizer's user message
HistoryQuote ==
    /\ hPhase = "fetched"
    /\ hQuoted' = UserRequest(hHistory)
    /\ hPhase' = "quoted"
    /\ UNCHANGED <<cfgVars, skillVars, flightVars, hookVars, reqVars, parseVars, clientVars, shellVars, hStored, hHistory, hMessages>>

HistoryNext == HistoryFetch \/ HistoryQuote

SpecHistory == HistoryInit /\ [][HistoryNext]_vars

(***************************************************************************)
(* The conversation-memory hook of src/hooks/useConversationMemory.ts:     *)
(* saveMessage and the startConversation it calls.  A callback reads the   *)
(* state its render closed over; setCurrentSessionId changes the state,    *)
(* and only a later render gives new callbacks the new value.              *)
(***************************************************************************)
MaxSaves == 3

HookInit ==
    /\ OPENMAX_OPENCLAW_EXECUTION = "auto"
    /\ OPENMAX_ALLOW_CLIENT_SSH_CONFIG = FALSE
    /\ envHost = ""
    /\ envUser = ""
    /\ envPassword = ""
    /\ envAllowKeyAuth = FALSE
    /\ RequestIdle
    /\ ParseIdle
    /\ ClientIdle
    /\ ShellIdle
    /\ HistoryIdle
    /\ memUser \in {"", "user-1"}
    /\ memSessionId = <<>>
    /\ memSeen = <<>>
    /\ mempc = "idle"
    /\ memCaptured = <<>>
    /\ memCreated = <<>>
    /\ memCreateFailed = FALSE
    /\ memPosts = <<>>
    /\ memPostsAtCall = 0
    /\ memReturned = NONE
    /\ memConversations = 0
    /\ memRole = NONE

\* React renders the component again: new callbacks close over the state
HookRender ==
    /\ mempc # "off"
    /\ memSeen # memSessionId
    /\ memSeen' = memSessionId
    /\ UNCHANGED <<cfgVars, skillVars, flightVars, reqVars, parseVars, clientVars, shellVars, historyVars,
                   memUser, memSessionId, mempc, memCaptured, memCreated, memCreateFailed,
                   memPosts, memPostsAtCall, memReturned, memConversations, memRole>>

\* saveMessage(role, content) up to its first await
HookSaveMessage ==
    /\ mempc = "idle"
    /\ Len(memPosts) < MaxSaves
    /\ memConversations < MaxSaves
    /\ \E role \in {"user", "assistant", "system"} :
          /\ memRole' = role
          /\ memCaptured' = memSeen
          /\ memCreated' = <<>>
          /\ memPostsAtCall' = Len(memPosts)
          /\ IF memSeen = <<>>
             THEN \* startConversation(): `if (!currentUser) return null`, else the POST
                  IF memUser = ""
                  THEN /\ memCreateFailed' = TRUE
                       /\ memReturned' = "null"
                       /\ mempc' = "idle"
                       /\ UNCHANGED memPosts
                  ELSE /\ memCreateFailed' = FALSE
                       /\ memReturned' = NONE
                       /\ mempc' = "creating"
                       /\ UNCHANGED memPosts
             ELSE /\ memCreateFailed' = FALSE
                  /\ memReturned' = NONE
                  /\ memPosts' = Append(memPosts, [sessionId |-> memSeen, role |-> role])
                  /\ mempc' = "posting"
    /\ UNCHANGED <<cfgVars, skillVars, flightVars, reqVars, parseVars, clientVars, shellVars, historyVars,
                   memUser, memSessionId, memSeen, memConversations>>

\* POST /api/conversations settles; saveMessage goes on to its own POST
HookStartConversationReturns ==
    /\ mempc = "creating"
    /\ \E ok \in BOOLEAN :
          IF ok
          THEN /\ memConversations' = memConversations + 1
               /\ memSessionId' = <<"session-", ToString(memConversations')>>
               /\ memCreated' = <<"session-", ToString(memConversations')>>
               /\ memPosts' = Append(memPosts, [sessionId |-> memCaptured, role |-> memRole])
               /\ mempc' = "posting"
               /\ UNCHANGED <<memCreateFailed, memReturned>>
          ELSE /\ memCreateFailed' = TRUE
               /\ memReturned' = "null"
               /\ mempc' = "idle"
               /\ UNCHANGED <<memConversations, memSessionId, memCreated, memPosts>>
    /\ UNCHANGED <<cfgVars, skillVars, flightVars, reqVars, parseVars, clientVars, shellVars, historyVars,
                   memUser, memSeen, memCaptured, memPostsAtCall, memRole>>

\* POST /api/messages settles: the server answers 400 without a sessionId
HookPostReturns ==
    /\ mempc = "posting"
    /\ \E ok \in BOOLEAN :
          memReturned' = IF ok /\ memPosts[Len(memPosts)].sessionId # <<>>
                         THEN "message" ELSE "null"
    /\ mempc' = "idle"
    /\ UNCHANGED <<cfgVars, skillVars, flightVars, reqVars, parseVars, clientVars, shellVars, historyVars,
                   memUser, memSessionId, memSeen, memCaptured, memCreated, memCreateFailed,
                   memPosts, memPostsAtCall, memConversations, memRole>>

HookNext ==
    \/ HookRender
    \/ HookSaveMessage
    \/ HookStartConversationReturns
    \/ HookPostReturns

SpecHook == HookInit /\ [][HookNext]_vars

(***************************************************************************)
(* Invocations of sendMessage and runInstantSkill against renders.  Both   *)
(* functions are recreated on every render and read isSending and          *)
(* currentSessionId from the render that created them; setIsSending only   *)
(* changes what the next render sees.  React commits a render before any   *)
(* later task runs, so the continuation of an await always finds the       *)
(* component rendered, while two invocations made within one task run      *)
(* against the same render.                                                *)
(***************************************************************************)
MaxInvocations == 3

\* React renders: the handlers are recreated over the current state
FlightRender ==
    /\ <<fSeenIsSending, fSeenSessionId>> # <<fIsSending, fSessionId>>
    /\ fSeenIsSending' = fIsSending
    /\ fSeenSessionId' = fSessionId
    /\ UNCHANGED <<cfgVars, skillVars, reqVars, parseVars, clientVars, shellVars, historyVars, hookVars,
                   fIsSending, fSessionId, fFlows, fMessages>>

\* sendMessage (with something to send) or runInstantSkill is invoked and
\* runs to its first await, or returns at `if (isSending) return`
FlightInvoke ==
    /\ Len(fFlows) < MaxInvocations
    /\ \E kind \in {"sendMessage", "runInstantSkill"} :
          IF fSeenIsSending
          THEN /\ fFlows' = Append(fFlows, [kind |-> kind, at |-> "returned",
                                            whileSending |-> fIsSending])
               /\ UNCHANGED <<fIsSending, fMessages>>
          ELSE /\ fIsSending' = TRUE
               /\ IF fSeenSessionId = ""
                  THEN /\ fFlows' = Append(fFlows, [kind |-> kind, at |-> "startConversation",
                                                    whileSending |-> fIsSending])
                       /\ UNCHANGED fMessages
                  ELSE /\ fFlows' = Append(fFlows, [kind |-> kind, at |-> "saveUser",
                                                    whileSending |-> fIsSending])
                       /\ fMessages' = Append(fMessages, "user")
    /\ UNCHANGED <<cfgVars, skillVars, reqVars, parseVars, clientVars, shellVars, historyVars, hookVars,
                   fSeenIsSending, fSessionId, fSeenSessionId>>

\* the await a flow is suspended at settles and the flow runs to its next one
FlightResume ==
    /\ <<fSeenIsSending, fSeenSessionId>> = <<fIsSending, fSessionId>>
    /\ \E i \in DOMAIN fFlows, ok \in BOOLEAN :
          LET at == fFlows[i].at
              to(next) == [fFlows EXCEPT ![i].at = next]
          IN
          CASE at = "startConversation" /\ ok ->
                  /\ fSessionId' = "s-1"
                  /\ fMessages' = Append(fMessages, "user")
                  /\ fFlows' = to("saveUser")
                  /\ UNCHANGED fIsSending
            [] at = "startConversation" /\ ~ok ->
                  /\ fIsSending' = FALSE
                  /\ fFlows' = to("done")
                  /\ UNCHANGED <<fSessionId, fMessages>>
            [] at = "saveUser" ->
                  /\ fFlows' = to("request")
                  /\ UNCHANGED <<fIsSending, fSessionId, fMessages>>
            [] at = "request" ->
                  /\ fMessages' = Append(fMessages, "ai")
                  /\ fFlows' = to("saveAssistant")
                  /\ UNCHANGED <<fIsSending, fSessionId>>
            [] at = "saveAssistant" ->
                  /\ fFlows' = to("loadConversations")
                  /\ UNCHANGED <<fIsSending, fSessionId, fMessages>>
            [] at = "loadConversations" ->
                  /\ fIsSending' = FALSE
                  /\ fFlows' = to("done")
                  /\ UNCHANGED <<fSessionId, fMessages>>
            [] OTHER -> FALSE
    /\ UNCHANGED <<cfgVars, skillVars, reqVars, parseVars, clientVars, shellVars, historyVars, hookVars,
                   fSeenIsSending, fSeenSessionId>>

FlightNext == FlightRender \/ FlightInvoke \/ FlightResume

SpecFlight == ClientInit /\ [][FlightNext]_vars

(***************************************************************************)
(* Properties                                                              *)
(***************************************************************************)
\* the target built from server configuration alone
ServerTarget ==
    [host |-> OrElse(envHost, DefaultHost),
     user |-> OrElse(envUser, DefaultUser),
     password |-> envPassword]

\* C3: with the allow-client-override flag off, resolveSshConfig gives the
\* same target for any two request bodies, namely the one built from server
\* configuration, and the target a request runs against is that one; a
\* target that differs from the server's occurs only with the flag on.
C3_TargetIgnoresBody ==
    /\ (~OPENMAX_ALLOW_CLIENT_SSH_CONFIG /\ pc = "idle") =>
          \A b1, b2 \in Bodies :
              /\ resolveSshConfig(b1) = resolveSshConfig(b2)
              /\ resolveSshConfig(b1) = ServerTarget
    /\ (sshConfig # NoConfig /\ sshConfig # ServerTarget) =>
          OPENMAX_ALLOW_CLIENT_SSH_CONFIG

\* a request whose body names its own host and password runs, flag off,
\* against the server's target
C3_Witness ==
    /\ ~OPENMAX_ALLOW_CLIENT_SSH_CONFIG
    /\ pc = "execute"
    /\ body.host = "198.51.100.7"
    /\ body.password = "hunter2"
    /\ sshConfig = ServerTarget
    /\ sshConfig.host # body.host

\* the request in flight is a decide-and-respond request whose session was
\* found and whose history was fetched: the decision model call was started
AgentDecided == endpoint = "agent" /\ calls["decide"] = 1

RunnerCalls == calls["runLocally"] + calls["runOverSsh"]

\* C1 (as stated): a decide-and-respond request for an existing conversation
\* is always answered with action respond or run_skill, never with an error
\* response that carries no action.
C1_AlwaysAnAction ==
    (pc = "done" /\ AgentDecided) => response.action \in {"respond", "run_skill"}

\* C1 (amended): such a request is answered either with status 200 and
\* action respond or run_skill, or with an error response carrying no
\* action: 400 when the decided skill id is not found in the registry or the
\* remote password is missing, 500 when the conversation lookup, the history
\* fetch or the decision model call throws.
C1_ActionOrError ==
    (pc = "done" /\ endpoint = "agent" /\ body.sessionId \in Conversations) =>
        \/ /\ response.status = 200
           /\ response.action \in {"respond", "run_skill"}
           /\ response.error = Absent
        \/ /\ response.status = 400
           /\ response.action = NONE
           /\ decisionRaw # Absent
           /\ \/ /\ response.error = <<"Unknown skillId: ", Str(skillId)>>
                 /\ skillId \notin DOMAIN OPENCLAW_SKILLS
              \/ /\ response.error = MissingPasswordText
                 /\ sshConfig.password = ""
           /\ RunnerCalls = 0
        \/ /\ response.status = 500
           /\ response.action = NONE
           /\ response.error = <<"Failed to process agent request">>
           /\ decisionRaw = Absent
           /\ calls["decide"] = 1 => chatError \in ChatFailures
           /\ RunnerCalls = 0

\* a valid-session request answered 400 because the model chose an unknown id
C1_Witness ==
    /\ pc = "done"
    /\ AgentDecided
    /\ body.sessionId \in Conversations
    /\ response.status = 400
    /\ skillId = "reboot-all"

\* the skill id the request in flight asks to run, NONE when it has none
RequestedSkill ==
    IF endpoint = "skill" THEN paramSkillId
    ELSE IF endpoint = "agent" THEN skillId
    ELSE NONE

\* C2: a request whose skill id is not in the Skill Registry ends with a
\* client error (4xx) and starts neither runLocally nor runOverSsh nor a
\* summarizer call.
C2_UnknownSkillNeverRuns ==
    (RequestedSkill # NONE /\ RequestedSkill \notin DOMAIN OPENCLAW_SKILLS) =>
        /\ RunnerCalls = 0
        /\ calls["summarize"] = 0
        /\ pc \notin {"execute", "summarize"}
        /\ pc = "done" => (response.status >= 400 /\ response.status <= 499)

\* hosts the router is asked about
RouterHosts ==
    {"127.0.0.1", "localhost", "203.0.113.9", "::1", "127.0.0.2",
     "198.51.100.7", DefaultHost}

\* hosts that are loopback addresses (or the loopback name)
LoopbackHosts == {"127.0.0.1", "localhost", "::1", "127.0.0.2"}

\* the runner was chosen for the request in flight
Routed == pc \in {"execute", "summarize"}

\* C4 (as stated): in mode local shouldRunLocally is true for every host; in
\* mode auto it is true exactly when the host is a loopback address.
C4_AutoIffLoopback ==
    Routed =>
        /\ OPENMAX_OPENCLAW_EXECUTION = "local" => ranCommand.runner = "local"
        /\ OPENMAX_OPENCLAW_EXECUTION = "auto" =>
              (ranCommand.runner = "local" <=> sshConfig.host \in LoopbackHosts)

\* C4 (amended): in mode local shouldRunLocally is true for every host; in
\* mode auto it is true exactly when the host is the string "127.0.0.1" or
\* "localhost" (true for "127.0.0.1", false for "203.0.113.9", and false for
\* other loopback addresses such as "::1"); the runner chosen for a request
\* is determined by the mode and the resolved host alone.
C4_AutoIffLocalhostString ==
    /\ OPENMAX_OPENCLAW_EXECUTION = "local" =>
          /\ \A h \in RouterHosts : shouldRunOpenClawLocally(h)
          /\ Routed => ranCommand.runner = "local"
    /\ OPENMAX_OPENCLAW_EXECUTION = "auto" =>
          /\ \A h \in RouterHosts :
                shouldRunOpenClawLocally(h) <=> h \in {"127.0.0.1", "localhost"}
          /\ shouldRunOpenClawLocally("127.0.0.1")
          /\ ~shouldRunOpenClawLocally("203.0.113.9")
          /\ ~shouldRunOpenClawLocally("::1")
          /\ Routed => (ranCommand.runner = "local"
                            <=> sshConfig.host \in {"127.0.0.1", "localhost"})

\* in mode auto a request against the caller-named host localhost runs locally
C4_Witness ==
    /\ OPENMAX_OPENCLAW_EXECUTION = "auto"
    /\ pc = "execute"
    /\ sshConfig.host = "localhost"
    /\ ranCommand.runner = "local"
    /\ calls["runLocally"] = 1

\* C5 (as stated): in execution mode remote shouldRunLocally is false for
\* every host, loopback hosts included, so every execution goes over ssh.
C5_RemoteModeNeverLocal ==
    (OPENMAX_OPENCLAW_EXECUTION = "remote" /\ Routed) =>
        /\ ranCommand.runner = "ssh"
        /\ calls["runLocally"] = 0

\* C5 (amended): in execution mode ssh (the value the code recognises; it
\* does not know a mode named remote) shouldRunLocally is false for every
\* host, loopback hosts included, so every execution goes over ssh.
C5_SshModeNeverLocal ==
    OPENMAX_OPENCLAW_EXECUTION = "ssh" =>
        /\ \A h \in RouterHosts : ~shouldRunOpenClawLocally(h)
        /\ Routed => ranCommand.runner = "ssh"
        /\ calls["runLocally"] = 0

\* in mode ssh a skill is being run over ssh against the loopback address
C5_Witness ==
    /\ OPENMAX_OPENCLAW_EXECUTION = "ssh"
    /\ pc = "execute"
    /\ sshConfig.host = "127.0.0.1"
    /\ ranCommand.runner = "ssh"
    /\ calls["runOverSsh"] = 1

\* the text has a first "{" at i and a last "}" at j
Braces(text, i, j) ==
    /\ text[i] = LB
    /\ \A k \in 1..(i - 1) : text[k] # LB
    /\ text[j] = RB
    /\ \A k \in (j + 1)..Len(text) : text[k] # RB

\* the model output of the spec's recovery example
RecoveryExample == <<Prose, LB, M_RespondHi, RB, Thanks>>

\* C6: when the raw output is not valid JSON as a whole but the part from its
\* first "{" to its last "}" is a valid JSON object, the decision is the one
\* parsed from that part; prose + {"action":"respond","text":"Hi"} + prose
\* gives the response {action: respond, assistant: "Hi"}.
C6_RecoveryParsing ==
    /\ pphase \in {"parsed", "answered"} =>
          \A i, j \in DOMAIN ptext :
              ( /\ ~JSONparse(ptext).ok
                /\ i < j
                /\ Braces(ptext, i, j)
                /\ JSONparse(SubSeq(ptext, i, j)).ok )
              => pvalue = JSONparse(SubSeq(ptext, i, j)).value
    /\ (pphase = "answered" /\ ptext = RecoveryExample) =>
          /\ pvalue.action = "respond"
          /\ pvalue.text = <<"Hi">>
          /\ presponse.status = 200
          /\ presponse.action = "respond"
          /\ presponse.assistant = <<"Hi">>

\* the recovery example was parsed and answered
C6_Witness ==
    /\ pphase = "answered"
    /\ ptext = RecoveryExample
    /\ ~JSONparse(ptext).ok
    /\ pvalue = MemberLists[M_RespondHi]
    /\ presponse.assistant = <<"Hi">>

\* the text gives no decision: it parses neither as a whole nor from first
\* "{" to last "}", or the value it parses to has no action
NoDecision(raw) ==
    LET whole == JSONparse(raw)
        i == IndexOf(raw, LB)
        j == LastIndexOf(raw, RB)
        part == IF i >= 1 /\ j > i THEN JSONparse(SubSeq(raw, i, j))
                ELSE [ok |-> FALSE, value |-> JsonNull]
        v == IF whole.ok THEN whole.value ELSE part.value
    IN \/ ~whole.ok /\ ~part.ok
       \/ ~v.truthy
       \/ v.action \in {UNDEFINED, ""}

\* the decision model call of the request in flight returned raw output
DecisionReturned == endpoint = "agent" /\ decisionRaw # Absent

\* C7: when the raw decision output cannot be parsed, directly or by
\* recovery, or parses to a value with no action, the request is answered
\* {action: respond} with the raw output as assistant text, or with the fixed
\* fallback sentence when the raw output is empty; no command is executed.
C7_UnparseableIsRespond ==
    (pc = "done" /\ DecisionReturned /\ NoDecision(decisionRaw)) =>
        /\ response.status = 200
        /\ response.action = "respond"
        /\ response.error = Absent
        /\ response.assistant =
              IF decisionRaw = <<>> THEN CouldNotDecide ELSE decisionRaw
        /\ RunnerCalls = 0
        /\ calls["summarize"] = 0

\* an empty model reply was answered with the fallback sentence
C7_Witness ==
    /\ pc = "done"
    /\ DecisionReturned
    /\ decisionRaw = <<>>
    /\ response.action = "respond"
    /\ response.assistant = CouldNotDecide

\* the text parses to a decision whose action is neither respond nor run_skill
UnknownAction(raw) ==
    /\ safeJsonParse(raw).truthy
    /\ safeJsonParse(raw).action \notin {UNDEFINED, "", "respond", "run_skill"}

\* C8 (as stated): a decision whose action is neither respond nor run_skill
\* is answered with an error response, not with an ordinary successful reply.
C8_UnknownActionIsError ==
    (pc = "done" /\ DecisionReturned /\ UnknownAction(decisionRaw)) =>
        /\ response.status >= 400
        /\ response.action = NONE
        /\ response.error # Absent

\* C8 (amended): a decision whose action is neither respond nor run_skill is
\* answered with an ordinary successful reply: status 200, action respond,
\* the raw model output as assistant text; no error is surfaced and no
\* command is executed.
C8_UnknownActionIsRespond ==
    (pc = "done" /\ DecisionReturned /\ UnknownAction(decisionRaw)) =>
        /\ response.status = 200
        /\ response.action = "respond"
        /\ response.assistant = decisionRaw
        /\ response.error = Absent
        /\ RunnerCalls = 0
        /\ calls["summarize"] = 0

\* the model decided {"action":"dance"} and the request was answered
C8_Witness ==
    /\ pc = "done"
    /\ DecisionReturned
    /\ decisionRaw = <<LB, M_Dance, RB>>
    /\ response.status = 200

\* the decision model call of the request in flight threw
DecisionFailed ==
    /\ endpoint = "agent"
    /\ pc = "done"
    /\ calls["decide"] = 1
    /\ decisionRaw = Absent
    /\ chatError # Absent

SummarizerFailed ==
    /\ pc = "done"
    /\ calls["summarize"] = 1
    /\ chatError # Absent

Contains(text, tok) == \E i \in DOMAIN text : text[i] = tok

NonEmptyText(text) == text \notin {Absent, JsNull, <<>>}

\* title of the entry the request in flight executed, as a template renders it
ExecutedTitle == Str(SkillLookup(skillId).title)

\* C10 (as stated): when the summarizer call fails after a skill ran, the
\* summary returned is a non-empty templated string containing the skill
\* title and the target host, on both endpoints.
C10_FallbackOnBothPaths ==
    SummarizerFailed =>
        LET summary == IF endpoint = "agent" THEN response.assistant
                       ELSE response.summary
        IN /\ NonEmptyText(summary)
           /\ Contains(summary, ExecutedTitle)
           /\ Contains(summary, sshConfig.host)

\* C10 (amended): when the summarizer call fails after a skill ran, on the
\* decide-and-respond path the summary (assistant) is the non-empty sentence
\* "Executed <title> on <host>. (Summary unavailable: <message>)" with the
\* executed entry's title and the target host, for every skill, host and
\* execution outcome; on the run-skill path the summary is null.
C10_FallbackOnAgentPathOnly ==
    SummarizerFailed =>
        /\ response.status = 200
        /\ endpoint = "agent" =>
              /\ NonEmptyText(response.assistant)
              /\ Contains(response.assistant, ExecutedTitle)
              /\ Contains(response.assistant, sshConfig.host)
              /\ response.assistant =
                    <<"Executed ", ExecutedTitle, " on ", sshConfig.host,
                      ". (Summary unavailable: ">> \o chatError \o <<")">>
              /\ response.tool.host = sshConfig.host
        /\ endpoint = "skill" => response.summary = JsNull

\* health-check failed on the server's host and the summarizer was down
C10_Witness ==
    /\ SummarizerFailed
    /\ endpoint = "agent"
    /\ skillId = "health-check"
    /\ ~execution.success
    /\ Contains(response.assistant, "System Health Check")

(***************************************************************************)
(* Command runner results                                                  *)
(***************************************************************************)
\* the runner of the request in flight has returned
RunnerReturned == pc \in {"summarize", "done"} /\ RunnerCalls = 1

FailureKinds == {"exit", "spawn", "timeout", "maxBuffer"}

\* C11: runLocally and runOverSsh never reject: whatever way the child
\* process or the transport fails (spawn failure, non-zero exit, timeout
\* kill, output over the ceiling), the caller gets a result record with
\* stdout, stderr and exitCode present, and on failure success is false and
\* error is set; the handler goes on to the summarizer and answers 200, its
\* catch is never entered from the runner.
C11_RunnerAlwaysResolves ==
    /\ RunnerReturned =>
          /\ child \in FailureKinds \cup {"ok"}
          /\ execution.success \in BOOLEAN
          /\ execution.stdout # Absent
          /\ execution.stderr # Absent
          /\ execution.exitCode \in Int
          /\ child \in FailureKinds =>
                /\ ~execution.success
                /\ execution.error \notin {Absent, JsNull, <<>>}
          /\ calls["summarize"] = 1
    /\ (pc = "done" /\ RunnerCalls = 1) =>
          /\ response.status = 200
          /\ child \in FailureKinds =>
                /\ ~response.tool.success
                /\ response.tool.error = execution.error

\* the remote run produced more output than the ceiling allows
C11_Witness ==
    /\ pc = "done"
    /\ ranCommand.runner = "ssh"
    /\ child = "maxBuffer"
    /\ ~execution.success
    /\ execution.error = <<"stdout maxBuffer length exceeded">>

\* exit codes reported for failures that carry no integer code of their own
UnknownFailureCodes ==
    { runLocally(o).exitCode : o \in {x \in ExecOutcomes : x.kind \in {"spawn", "maxBuffer"}} }
      \cup
    { runOverSsh(o).exitCode : o \in {x \in ExecOutcomes : x.kind \in {"spawn", "maxBuffer"}} }

\* C12 (as stated): a run killed by the timeout returns success false, a
\* non-empty stderr or an error, and an exit code that identifies the
\* timeout: one that is not reported for other unknown failures.
C12_TimeoutCodeIsSpecific ==
    (RunnerReturned /\ child = "timeout") =>
        /\ ~execution.success
        /\ (execution.stderr # <<>> \/ execution.error \notin {Absent, <<>>})
        /\ execution.exitCode \notin UnknownFailureCodes

\* C12 (amended): a run killed by the timeout returns success false, a
\* non-empty stderr, the error message, and the exit code 1, the default
\* that is also reported for a spawn failure and for output over the ceiling.
C12_TimeoutCodeIsDefault ==
    (RunnerReturned /\ child = "timeout") =>
        /\ ~execution.success
        /\ execution.stderr \notin {Absent, <<>>}
        /\ execution.error \notin {Absent, <<>>}
        /\ execution.exitCode = 1
        /\ UnknownFailureCodes = {1}

\* the local run was killed by the timeout
C12_Witness ==
    /\ RunnerReturned
    /\ child = "timeout"
    /\ ranCommand.runner = "local"
    /\ execution.exitCode = 1

\* C13: a skill command that exits non-zero is answered with status 200, in
\* the run_skill shape (agent endpoint) or the flat shape (skill endpoint),
\* with success false and the exit code and stderr the runner reported, and
\* the summarizer is called.
C13_NonZeroExitIsReported ==
    (pc = "done" /\ child = "exit") =>
        /\ response.status = 200
        /\ response.error = Absent
        /\ endpoint = "agent" => response.action = "run_skill"
        /\ endpoint = "skill" => response.action = NONE
        /\ ~response.tool.success
        /\ response.tool.exitCode = execution.exitCode
        /\ response.tool.stderr = execution.stderr
        /\ \E o \in ExecOutcomes :
              /\ o.kind = "exit"
              /\ response.tool.exitCode = o.code
              /\ o.code # 0
              /\ response.tool.stderr = o.stderr
        /\ calls["summarize"] = 1

\* the agent ran health-check, it exited with 2, and the summary was made
C13_Witness ==
    /\ pc = "done"
    /\ endpoint = "agent"
    /\ child = "exit"
    /\ response.tool.exitCode = 2
    /\ response.tool.stderr = <<"err">>
    /\ response.assistant = <<"All good.">>

(***************************************************************************)
(* Validation errors and completion of the agent request                   *)
(***************************************************************************)
\* the request in flight is a decide-and-respond request whose sessionId is
\* missing or names no conversation
InvalidSession == endpoint = "agent" /\ body.sessionId \notin Conversations

\* the conversation lookup itself threw (the database was unreachable)
LookupThrew ==
    /\ pc = "done"
    /\ calls["getConversation"] = 1
    /\ response.status = 500

C15_AgentRequestCompletes ==
    /\ [](endpoint = "agent" =>
            /\ sent <= 1
            /\ (pc = "done" <=> sent = 1)
            /\ (sent = 1 => response.status # 0)
            /\ \A c \in CallNames : calls[c] <= 1)
    /\ (endpoint = "agent" /\ pc # "done") ~> (pc = "done" /\ sent = 1)

\* the request was answered after the skill ran and the summarizer failed
C15_Witness ==
    /\ pc = "done"
    /\ endpoint = "agent"
    /\ sent = 1
    /\ calls["summarize"] = 1
    /\ chatError # Absent
    /\ response.status = 200

(***************************************************************************)
(* What is executed, where, and in which order                             *)
(***************************************************************************)
RegistryCommands == { OPENCLAW_SKILLS[id].command : id \in DOMAIN OPENCLAW_SKILLS }

\* C16: the command string handed to a runner is always exactly the command
\* of a Skill Registry entry, whatever the request body, the model output
\* and the configuration.
C16_CommandIsRegistryCommand ==
    ranCommand.runner # NONE => ranCommand.command \in RegistryCommands

\* the request in flight is a run-skill request for a registered id, and the
\* server runs in mode local
LocalRunSkill ==
    /\ endpoint = "skill"
    /\ OPENMAX_OPENCLAW_EXECUTION = "local"
    /\ paramSkillId \in DOMAIN OPENCLAW_SKILLS

\* C17: in mode local a run-skill request for a registered id starts the
\* local runner exactly once with that entry's command, never the ssh
\* runner, and never answers with the missing-password error, whatever the
\* host and password; the response is the flat shape without action, with
\* the requested skillId and an executedAt read after the runner returned.
C17_LocalModeRunsLocally ==
    LocalRunSkill =>
        /\ calls["runLocally"] = 1
        /\ calls["runOverSsh"] = 0
        /\ ranCommand = LocalCommand(OPENCLAW_SKILLS[paramSkillId].command)
        /\ response.error # MissingPasswordText
        /\ pc = "done" =>
              /\ response.status = 200
              /\ response.action = NONE
              /\ response.skillId = paramSkillId
              /\ child # NONE
              /\ execEndedAt > 0
              /\ response.tool.executedAt >= execEndedAt

\* health-check ran locally although the target is a remote host without a
\* password
C17_Witness ==
    /\ LocalRunSkill
    /\ pc = "done"
    /\ paramSkillId = "health-check"
    /\ sshConfig.host = "203.0.113.9"
    /\ sshConfig.password = ""
    /\ ~envAllowKeyAuth
    /\ ranCommand.command = "cmd:health-check"
    /\ response.tool.executedAt > execEndedAt

\* calls that leave the server: the model backend and the command runners
ExternalCalls == {"decide", "runLocally", "runOverSsh", "summarize"}

\* C19: once the caller has disconnected, no further external call of its
\* request is started: no runner after the decision, no summarizer after the
\* execution.
C19_DisconnectCancels ==
    [][~connected => \A c \in ExternalCalls : calls'[c] <= calls[c]]_vars

\* C20: within one decide-and-respond request the decision, the runner and
\* the summarizer are each called at most once, in this order: the runner
\* is not started before the decision is parsed and its skill id found in
\* the registry, the summarizer not before the runner has returned.
C20_DecideExecuteSummarize ==
    endpoint = "agent" =>
        /\ calls["decide"] <= 1
        /\ RunnerCalls <= 1
        /\ calls["summarize"] <= 1
        /\ RunnerCalls = 1 =>
              /\ calls["decide"] = 1
              /\ decisionRaw # Absent
              /\ safeJsonParse(decisionRaw).skillId = skillId
              /\ skillId \in DOMAIN OPENCLAW_SKILLS
        /\ calls["summarize"] = 1 =>
              /\ RunnerCalls = 1
              /\ child # NONE
              /\ execution # NoExecution

(***************************************************************************)
(* Client send flow                                                        *)
(***************************************************************************)
\* position of a request among those the send in progress has issued (0: not
\* issued)
Issued(r) ==
    IF \E i \in DOMAIN requests : requests[i] = r
    THEN CHOOSE i \in DOMAIN requests : requests[i] = r
    ELSE 0

\* the user turn is persisted before the agent request is issued, the
\* assistant turn after the agent's reply or failure is known
PersistOrder ==
    /\ Issued("POST /api/brain/agent") > 0 =>
          /\ Issued("POST /api/messages user") > 0
          /\ Issued("POST /api/messages user") < Issued("POST /api/brain/agent")
    /\ cpc = "agent" => Issued("POST /api/messages assistant") = 0
    /\ Issued("POST /api/messages assistant") > 0 =>
          /\ Issued("POST /api/brain/agent") < Issued("POST /api/messages assistant")
          /\ agent # NoAgent \/ messages[Len(messages)].text = OkText

\* a failed persistence call does not abort the send
FlowNotAborted ==
    /\ "user" \in saveFailed =>
          /\ Issued("POST /api/brain/agent") > 0
          /\ cpc \in {"saveAssistant", "loadConversations", "idle"} =>
                /\ messages[Len(messages)].role = "ai"
                /\ messages[Len(messages) - 1].role = "user"
    /\ "assistant" \in saveFailed =>
          /\ messages[Len(messages)].role = "ai"
          /\ NonEmptyText(messages[Len(messages)].text)

\* the flow in progress, or the last one, is a sendMessage
SendFlow == runningSkillId = "" /\ Issued("POST /api/openclaw/skills") = 0

\* the warning has been on screen since a persistence call failed
WarningShown == saveFailed # {} => SyncWarning \in shown

\* C18: in sendMessage the user turn is persisted before the agent request
\* is issued and the assistant turn after its reply or failure is known;
\* when a persistence call fails, the warning status is shown and the send
\* goes on: the agent request is made and the assistant message is added.
C18_PersistAroundAgentWithWarning ==
    SendFlow =>
        /\ PersistOrder
        /\ FlowNotAborted
        /\ WarningShown

(***************************************************************************)
(* Execution results, credentials, lookup and completion text              *)
(***************************************************************************)
\* C22: in every result of runLocally or runOverSsh success is true exactly
\* when exitCode is 0; on failure exitCode is the child's integer exit code
\* when it has one and 1 otherwise (spawn failure, timeout kill, output over
\* the ceiling).
C22_SuccessIffExitZero ==
    RunnerReturned =>
        /\ execution.success <=> execution.exitCode = 0
        /\ execution.success <=> child = "ok"
        /\ child = "exit" =>
              \E o \in ExecOutcomes :
                  /\ o.kind = "exit"
                  /\ o.codeIsInt
                  /\ execution.exitCode = o.code
        /\ child \in {"spawn", "timeout", "maxBuffer"} => execution.exitCode = 1

\* the binary was missing on the server: the local run failed to spawn
C22_Witness ==
    /\ RunnerReturned
    /\ ranCommand.runner = "local"
    /\ child = "spawn"
    /\ ~execution.success
    /\ execution.exitCode = 1

\* the request in flight got as far as the password gate
ReachedGate == pc # "idle" /\ sshConfig # NoConfig

\* C24: when the router chooses remote execution, the resolved password is
\* empty and OPENMAX_ALLOW_KEY_AUTH is unset, a request that reaches the
\* gate is answered 400 on both endpoints without any runner or summarizer
\* call; a remote run is only ever started with a password or with key
\* authentication allowed; with local execution the password is never asked
\* for.
C24_NoRemoteRunWithoutCredentials ==
    /\ (/\ ReachedGate
        /\ ~shouldRunOpenClawLocally(sshConfig.host)
        /\ sshConfig.password = ""
        /\ ~envAllowKeyAuth) =>
            /\ pc = "done"
            /\ response.status = 400
            /\ response.error = MissingPasswordText
            /\ RunnerCalls = 0
            /\ calls["summarize"] = 0
            /\ ranCommand = NoCommand
    /\ ranCommand.runner = "ssh" => (ranCommand.password # "" \/ envAllowKeyAuth)
    /\ (ReachedGate /\ shouldRunOpenClawLocally(sshConfig.host)) =>
            /\ response.error # MissingPasswordText
            /\ calls["runLocally"] = 1

\* the model chose a skill but the remote target has no password
C24_Witness ==
    /\ pc = "done"
    /\ endpoint = "agent"
    /\ skillId = "health-check"
    /\ ~shouldRunOpenClawLocally(sshConfig.host)
    /\ sshConfig.password = ""
    /\ response.status = 400
    /\ response.error = MissingPasswordText

\* the request in flight has had its skill id looked up
LookedUp ==
    /\ RequestedSkill # NONE
    /\ pc \in {"execute", "summarize", "done"}

\* C25: the lookup finds exactly the five registered ids; a request for any
\* other id, names inherited by every object included, gets the
\* unknown-skill client error and no runner is started for it.
C25_OnlyRegisteredIdsAreFound ==
    LookedUp =>
        /\ RunnerCalls > 0 =>
              RequestedSkill \in {"health-check", "quick-fix", "vpn-status",
                                  "repo-sync", "service-restart"}
        /\ (pc = "done" /\ RequestedSkill \notin DOMAIN OPENCLAW_SKILLS) =>
              /\ response.status \in {400, 404}
              /\ response.error \in { <<"Unknown skill: ", RequestedSkill>>,
                                      <<"Unknown skillId: ", Str(RequestedSkill)>> }

\* C26: every 200 response of the decide-and-respond endpoint carries a
\* non-empty assistant text, for both actions and every model output.
C26_AssistantNeverEmpty ==
    (endpoint = "agent" /\ pc = "done" /\ response.status = 200) =>
        /\ response.action \in {"respond", "run_skill"}
        /\ NonEmptyText(response.assistant)

(***************************************************************************)
(* The ssh invocation                                                      *)
(***************************************************************************)
\* the ssh arguments proper: what follows `sshpass -p <password> ssh`, or all
SshArgsOf(args) == IF shFile = "sshpass" THEN SubSeq(args, 4, Len(args)) ELSE args

\* option value pairs `-o <value>` of an ssh argument vector
SshOptions(args) == {args[i + 1] : i \in {j \in 1..(Len(args) - 1) : args[j] = <<"-o">>}}

\* C23: runOverSsh picks the authentication method from the target alone:
\* with a non-empty password the child is `sshpass -p <password> ssh ...`,
\* otherwise plain `ssh ...`; either way the ssh arguments disable host-key
\* checking, set ConnectTimeout=15, and address <user>@<host> right before
\* the remote command.
C23_AuthMethodFromTarget ==
    shPhase \in {"spawned", "parsed"} =>
        LET ssh == SshArgsOf(shArgs) IN
        /\ shTarget.password # "" =>
              /\ shFile = "sshpass"
              /\ SubSeq(shArgs, 1, 3) = << <<"-p">>, <<shTarget.password>>, <<"ssh">> >>
        /\ shTarget.password = "" =>
              /\ shFile = "ssh"
              /\ \A i \in 1..Len(shArgs) : shArgs[i] # <<shTarget.password>>
        /\ <<"StrictHostKeyChecking=no">> \in SshOptions(ssh)
        /\ <<"ConnectTimeout=15">> \in SshOptions(ssh)
        /\ Len(ssh) = 8
        /\ ssh[7] = <<shTarget.user, "@", shTarget.host>>
        /\ ssh[8] = remoteCommand(shCommand)

C23_Witness ==
    /\ shPhase = "spawned"
    /\ shTarget.password # ""
    /\ shFile = "sshpass"
    /\ shCommand # <<>>

\* C30: the remote command is `bash -lc ` followed by the quoted command, and
\* the remote shell reads it as exactly three words: bash, -lc and the
\* command itself, character for character, whatever quotes, blanks,
\* backslashes and newlines the command holds.
C30_QuoteRoundTrips ==
    /\ shPhase \in {"spawned", "parsed"} =>
          shArgs[Len(shArgs)]
              = <<"b", "a", "s", "h", " ", "-", "l", "c", " ">> \o quoteForShell(shCommand)
    /\ shPhase = "parsed" =>
          /\ shWords = << <<"b", "a", "s", "h">>, <<"-", "l", "c">>, shCommand >>
          /\ ShellWords(quoteForShell(shCommand), 1, "none", <<>>, <<>>) = <<shCommand>>

C30_Witness ==
    /\ shPhase = "parsed"
    /\ \E i \in 1..Len(shCommand) : shCommand[i] = "'"
    /\ \E i \in 1..Len(shCommand) : shCommand[i] \in {" ", "\n"}
    /\ shWords[3] = shCommand

(***************************************************************************)
(* The history sent to the decision model                                  *)
(***************************************************************************)
\* the last min(Len(rows), limit) rows, oldest first
Trailing(rows, limit) ==
    SubSeq(rows, IF Len(rows) > limit THEN Len(rows) - limit + 1 ELSE 1, Len(rows))

\* content of the latest stored user turn (<<>> when there is none)
LatestUserTurn(rows) ==
    LET at == {i \in 1..Len(rows) : rows[i].role = "user"}
    IN  IF at = {} THEN <<>> ELSE rows[CHOOSE i \in at : \A j \in at : j <= i].content

\* C21: the history read for the decision model is the trailing part of the
\* stored conversation, oldest first: the messages sent carry the latest
\* stored user turn, and that turn is the one quoted to the summarizer.
C21_HistoryIsTrailing ==
    /\ hPhase \in {"fetched", "quoted"} =>
          /\ hHistory = Trailing(hStored, HISTORY_LIMIT)
          /\ LatestUserTurn(hStored) # <<>> =>
                \E i \in 2..Len(hMessages) :
                    /\ hMessages[i].role = "user"
                    /\ hMessages[i].content = LatestUserTurn(hStored)
    /\ hPhase = "quoted" => hQuoted = LatestUserTurn(hStored)

(***************************************************************************)
(* The conversation-memory hook                                            *)
(***************************************************************************)
\* C29: saveMessage never posts a message with a null session id: called
\* with no active session it creates a conversation and posts under that
\* conversation's session id, and when the conversation cannot be created it
\* returns null without posting.
C29_NeverPostsNullSession ==
    /\ \A i \in DOMAIN memPosts : memPosts[i].sessionId # <<>>
    /\ (mempc = "posting" /\ memCreated # <<>>) =>
          memPosts[Len(memPosts)].sessionId = memCreated
    /\ (mempc = "idle" /\ memCreateFailed) =>
          /\ memReturned = "null"
          /\ Len(memPosts) = memPostsAtCall

(***************************************************************************)
(* Single flight                                                           *)
(***************************************************************************)
\* flows that have passed the guard and have not finished
InFlight == {i \in DOMAIN fFlows : fFlows[i].at \notin {"returned", "done"}}

\* agent or skill requests that have been issued and have not settled
Outstanding == {i \in DOMAIN fFlows : fFlows[i].at = "request"}

\* C27: the client is single-flight: an invocation of sendMessage or
\* runInstantSkill made while isSending is set, before or after the next
\* render, returns without doing anything, so at most one flow is in
\* progress and at most one agent or skill request is outstanding.
C27_SingleFlight ==
    /\ \A i \in DOMAIN fFlows : fFlows[i].whileSending => fFlows[i].at = "returned"
    /\ Cardinality(InFlight) <= 1
    /\ Cardinality(Outstanding) <= 1

(***************************************************************************)
(* Shape of a chat turn                                                    *)
(***************************************************************************)
\* the awaits of a flow that has a session, in the order the flow passes them
TurnOrder(at) ==
    CASE at = "saveUser" -> "agent"
      [] at = "agent" -> "saveAssistant"
      [] at = "saveAssistant" -> "loadConversations"
      [] at = "loadConversations" -> "idle"
      [] at = "skillSaveUser" -> "skill"
      [] at = "skill" -> "skillSaveAssistant"
      [] at = "skillSaveAssistant" -> "skillLoadConversations"
      [] at = "skillLoadConversations" -> "idle"
      [] OTHER -> NONE

\* one message of the given role was appended in this step
Appended(role) ==
    /\ Len(messages') = Len(messages) + 1
    /\ SubSeq(messages', 1, Len(messages)) = messages
    /\ messages'[Len(messages')].role = role

TurnStep ==
    /\ TurnOrder(cpc) # NONE => cpc' \in {cpc, TurnOrder(cpc)}
    /\ IF cpc' \in {"saveUser", "skillSaveUser"} /\ cpc' # cpc
       THEN Appended("user")
       ELSE IF cpc \in {"agent", "skill"} /\ cpc' # cpc
       THEN /\ Appended("ai")
            /\ NonEmptyText(messages'[Len(messages')].text)
            /\ trim(messages'[Len(messages')].text) # <<>>
       ELSE messages' = messages

====
